---- MODULE Spec2Model ----
(***************************************************************************)
(* Model of the grailbio recordio library: the legacy (v1) writer          *)
(* (writer.cc), the legacy readers (legacy_reader.cc) and the sticky error *)
(* cell (internal.h).  A little-endian host is modelled.                   *)
(***************************************************************************)
EXTENDS Integers, Sequences, FiniteSets, TLC

(***************************************************************************)
(* Bounds of the model.                                                    *)
(***************************************************************************)
\* Write calls explored per writer
MaxWrites == 3
\* Close calls explored per writer
MaxCloses == 2
\* environment faults (sink, indexer, transformer) injected per run
MaxFaults == 1
\* Set / SetError calls explored on the error cells
MaxSets == 4
\* Scan calls explored after the first Scan that returned false
MaxLateScans == 2
\* Seek calls explored per reader
MaxSeeks == 1
\* length of the buffers given to the flate transformer
MaxFlateLen == 4
\* Transform calls explored on one pair of flate transformers
MaxFlateCalls == 2
\* pieces of a transformer config string
MaxConfigLen == 3
\* registry calls explored per thread
MaxRegOps == 2
\* chunks of a chunk file
MaxChunks == 2
\* ChunkReader calls explored per file
MaxChunkOps == 3
\* data blocks of a v2 file, calls made on a v2 reader
MaxV2Data == 2
MaxV2Ops == 5

\* record n is n bytes of value n: <<>>, <<1>>, <<3,3,3>>
Rec(n) == [i \in 1..n |-> n]
RecordLens == {0, 1, 3}
Records == {Rec(n) : n \in RecordLens}

(***************************************************************************)
(* Bytes and fixed-width integers.  A byte is a number in 0..255; a        *)
(* uint32_t or uint64_t in the file is kept as its little-endian byte      *)
(* tuple, so that its full width is represented.                           *)
(***************************************************************************)
Byte == 0..255

RECURSIVE XorBits(_, _, _)
XorBits(a, b, n) ==
  IF n = 0 THEN 0
  ELSE ((a + b) % 2) + 2 * XorBits(a \div 2, b \div 2, n - 1)

XorTab == [a \in Byte |-> [b \in Byte |-> XorBits(a, b, 8)]]

Xor8(a, b) == XorTab[a][b]

\* bytewise xor of two 4-byte little-endian words
Xor32(x, y) == <<Xor8(x[1], y[1]), Xor8(x[2], y[2]), Xor8(x[3], y[3]), Xor8(x[4], y[4])>>

\* logical shift right by one bit of a 4-byte little-endian word
Shr1(x) ==
  <<(x[1] \div 2) + 128 * (x[2] % 2), (x[2] \div 2) + 128 * (x[3] % 2),
    (x[3] \div 2) + 128 * (x[4] % 2), x[4] \div 2>>

\* reflected CRC-32/IEEE polynomial 0xEDB88320 as little-endian bytes
CrcPoly == <<32, 131, 184, 237>>

RECURSIVE CrcBitLoop(_, _)
CrcBitLoop(c, k) ==
  IF k = 0 THEN c
  ELSE CrcBitLoop(IF c[1] % 2 = 1 THEN Xor32(Shr1(c), CrcPoly) ELSE Shr1(c),
                  k - 1)

CrcTable == [b \in Byte |-> CrcBitLoop(<<b, 0, 0, 0>>, 8)]

\* crc = table[(crc ^ b) & 0xff] ^ (crc >> 8)
CrcStep(c, b) == Xor32(CrcTable[Xor8(c[1], b)], <<c[2], c[3], c[4], 0>>)

RECURSIVE CrcFold(_, _, _)
CrcFold(c, data, i) ==
  IF i > Len(data) \/ c = <<>> THEN c ELSE CrcFold(CrcStep(c, data[i]), data, i + 1)

AllOnes == <<255, 255, 255, 255>>

\* internal::Crc32 = zlib crc32(0, data, bytes); the value as 4 LE bytes
Crc32(data) == Xor32(CrcFold(AllOnes, data, 1), AllOnes)

\* the n low bytes of v, least significant first
RECURSIVE LEBytes(_, _)
LEBytes(v, n) == IF n = 0 THEN <<>> ELSE <<v % 256>> \o LEBytes(v \div 256, n - 1)

\* the 8 bytes most significant first, as a host-order write on a big-endian
\* machine would give
BEUint64(v) == [i \in 1..8 |-> LEBytes(v, 8)[9 - i]]

\* htole64 + write of sizeof(uint64_t) bytes
LEUint64(v) == LEBytes(v, 8)

\* sub-sequence data[from..to], empty when from > to
Slice(data, from, to) == [i \in 1..(to - from + 1) |-> data[from + i - 1]]

\* the byte with bit number b inverted
FlipBit(byte, b) ==
  IF (byte \div (2 ^ b)) % 2 = 1 THEN byte - 2 ^ b ELSE byte + 2 ^ b

Min(a, b) == IF a < b THEN a ELSE b
Max(a, b) == IF a > b THEN a ELSE b

(***************************************************************************)
(* size_t values.  TLC's integers are 32 bits wide, so a size is kept as   *)
(* g * 2^30 + b with 0 <= b < 2^30.  An item is its bytes followed by      *)
(* gib * 2^30 zero bytes; gib = 0 for every record of Records.             *)
(***************************************************************************)
TwoTo30 == 2 ^ 30

SizeT(g, b) == [g |-> g + (b \div TwoTo30), b |-> b % TwoTo30]

SizeAdd(s, t) == SizeT(s.g + t.g, s.b + t.b)

Item(bytes, gib) == [bytes |-> bytes, gib |-> gib]

\* ByteSpan::size()
ItemSize(item) == SizeT(item.gib, Len(item.bytes))

\* an item of exactly 2^31 bytes
HugeItem == Item(<<>>, 2)

Items == {Item(r, 0) : r \in Records} \cup {HugeItem}

\* the conversion of a size_t to uint32_t
CastUint32(s) == SizeT(s.g % 4, s.b)

\* static_cast<int>(size_t): the low 32 bits read as two's complement
CastInt(s) ==
  LET q == s.g % 4
  IN  IF q >= 2 THEN (q - 4) * TwoTo30 + s.b ELSE q * TwoTo30 + s.b

(***************************************************************************)
(* PackedHeaderBuilder (writer.cc)                                         *)
(***************************************************************************)
RECURSIVE UVarint(_)
UVarint(v) ==
  IF v >= 128 THEN <<(v % 128) + 128>> \o UVarint(v \div 128) ELSE <<v>>

\* PackedHeaderBuilder::AppendUVarint of a size_t: the same loop, with the
\* four low 7-bit groups taken from the low 28 bits when v >= 2^30
AppendUVarint(buf, s) ==
  IF s.g = 0 THEN buf \o UVarint(s.b)
  ELSE buf \o [i \in 1..4 |-> ((s.b \div (128 ^ (i - 1))) % 128) + 128]
           \o UVarint((s.b \div (128 ^ 4)) + 4 * s.g)

\* items_count_ == std::numeric_limits<uint32_t>::max()
IsUint32Max(n) == (n \div 65536 = 65535) /\ (n % 65536 = 65535)

\* AppendHeader with a checksum that leaves the item count out
AppendHeaderSizesOnly(items_count, sizes) ==
  Crc32(sizes) \o AppendUVarint(<<>>, SizeT(0, items_count)) \o sizes

\* PackedHeaderBuilder::AppendHeader on an empty buffer: 4 checksum bytes,
\* then uvarint(items_count_) and the item sizes; the checksum covers the
\* varints only
AppendHeader(items_count, sizes) ==
  LET varints == AppendUVarint(<<>>, SizeT(0, items_count)) \o sizes
  IN  Crc32(varints) \o varints

(***************************************************************************)
(* The DEFLATE codec (zlib, an external library) is modelled by a          *)
(* run-length code that keeps what the transformers rely on: a stream of   *)
(* symbols, the last of which carries the end-of-stream mark, that may be  *)
(* shorter than the data it encodes.  A symbol is a header byte h and,     *)
(* when h % 128 > 0, one value byte: it stands for h % 128 copies of the   *)
(* value; h >= 128 marks the last symbol.                                  *)
(***************************************************************************)
RECURSIVE RunLen(_, _)
RunLen(data, i) ==
  IF i < Len(data) /\ data[i + 1] = data[i] THEN 1 + RunLen(data, i + 1) ELSE 1

RECURSIVE DeflateFrom(_, _)
DeflateFrom(data, i) ==
  IF Len(data) = 0 THEN <<128>>
  ELSE LET n == Min(RunLen(data, i), 127)
       IN  IF i + n > Len(data) THEN <<n + 128, data[i]>>
           ELSE <<n, data[i]>> \o DeflateFrom(data, i + n)

\* deflate(..., Z_FINISH) of one input slice into a deflateBound-sized buffer
Deflate(data) == DeflateFrom(data, 1)

\* CompressTransformerImpl::Transform on a one-slice IoVec; zerr is the
\* environment making deflateInit2 / deflate fail
CompressTransform(data, zerr) ==
  IF zerr THEN [err |-> "deflate failed", out |-> <<>>]
  ELSE [err |-> "", out |-> Deflate(data)]

\* n copies of the byte v
Copies(n, v) == [k \in 1..n |-> v]

\* the z_stream after inflateInit2: inflate expects the header byte of a
\* symbol ("head"), its value byte ("val") or room for the rest of a run
\* ("copy": left copies of v are still to be written, h is the header)
InflateInit == [mode |-> "head", h |-> 0, v |-> 0, left |-> 0]

\* inflate() returns: Z_BUF_ERROR when the call made no progress
InflateReturn(ret, z, i, out, size) ==
  [ret |-> ret, z |-> z, i |-> i, out |-> out, size |-> size]

\* inflate(&stream, Z_NO_FLUSH): in is the slice next_in points into, i its
\* next byte (avail_in = Len(in) - i + 1), out the bytes in tmp_ so far,
\* size is tmp_.size() (avail_out = size - Len(out)).  It decodes until the
\* stream ends, the input is used up or tmp_ is full.
RECURSIVE Inflate(_, _, _, _, _, _)
Inflate(z, in, i, out, size, progress) ==
  IF z.mode = "copy"
    THEN IF Len(out) >= size
           THEN InflateReturn(IF progress THEN "Z_OK" ELSE "Z_BUF_ERROR", z, i, out, size)
         ELSE IF z.left > size - Len(out)
           THEN Inflate([z EXCEPT !.left = @ - (size - Len(out))], in, i,
                        out \o Copies(size - Len(out), z.v), size, TRUE)
         ELSE IF z.h >= 128
           THEN InflateReturn("Z_STREAM_END", z, i, out \o Copies(z.left, z.v), size)
         ELSE Inflate([z EXCEPT !.mode = "head"], in, i, out \o Copies(z.left, z.v),
                      size, TRUE)
  ELSE IF i > Len(in)
    THEN InflateReturn(IF progress THEN "Z_OK" ELSE "Z_BUF_ERROR", z, i, out, size)
  ELSE IF z.mode = "val"
    THEN Inflate([z EXCEPT !.mode = "copy", !.v = in[i], !.left = z.h % 128], in, i + 1,
                 out, size, TRUE)
  ELSE IF in[i] % 128 > 0
    THEN Inflate([z EXCEPT !.mode = "val", !.h = in[i]], in, i + 1, out, size, TRUE)
  ELSE IF in[i] >= 128 THEN InflateReturn("Z_STREAM_END", z, i + 1, out, size)
  ELSE Inflate(z, in, i + 1, out, size, TRUE)

\* The for (;;) loop of the Transform of UncompressTransformerImpl and of
\* UnflateTransformerImpl on the slice in, r being what inflate returned:
\* it stops when the stream ended or avail_in == 0, and doubles tmp_ when
\* avail_out == 0
RECURSIVE InflateLoop(_, _)
InflateLoop(r, in) ==
  IF r.ret = "Z_BUF_ERROR" \/ r.ret = "Z_STREAM_END" \/ r.i > Len(in) THEN r
  ELSE IF Len(r.out) >= r.size
    THEN InflateLoop(Inflate(r.z, in, r.i, r.out, 2 * r.size, FALSE), in)
  ELSE [r EXCEPT !.ret = "abort"]

\* the loop over the slices of in_iov, r being what the for (;;) loop on
\* the slice number idx left, and the tests after it
RECURSIVE InflateSlices(_, _, _)
InflateSlices(in_iov, idx, r) ==
  IF r.ret = "Z_BUF_ERROR" \/ r.ret = "abort"
    THEN [err |-> "inflate failed", out |-> <<>>, size |-> r.size]
  ELSE IF r.ret = "Z_STREAM_END"
    THEN IF r.i <= Len(in_iov[idx]) \/ idx # Len(in_iov)
           THEN [err |-> "found trailing junk during inflate", out |-> <<>>,
                 size |-> r.size]
         ELSE [err |-> "", out |-> r.out, size |-> r.size]
  ELSE IF idx = Len(in_iov) THEN [err |-> "", out |-> r.out, size |-> r.size]
  ELSE InflateSlices(in_iov, idx + 1,
                     InflateLoop(Inflate(r.z, in_iov[idx + 1], 1, r.out, r.size, FALSE),
                                 in_iov[idx + 1]))

\* internal::IoVecSize
RECURSIVE IoVecSize(_)
IoVecSize(iov) == IF iov = <<>> THEN 0 ELSE Len(Head(iov)) + IoVecSize(Tail(iov))

\* tmp_.size() after the resize at the start of Transform
FirstSize(in_bytes, capacity) == IF capacity >= in_bytes * 2 THEN capacity ELSE in_bytes

\* Transform on an IoVec that is not empty, with tmp_ of the given size
InflateAll(in_iov, size) ==
  InflateSlices(in_iov, 1,
                InflateLoop(Inflate(InflateInit, in_iov[1], 1, <<>>, size, FALSE),
                            in_iov[1]))

\* UncompressTransformerImpl::Transform on a one-slice IoVec; capacity is
\* tmp_.capacity(), the largest size tmp_ ever had.  The result carries the
\* new capacity.
UncompressTransform(in, capacity) == InflateAll(<<in>>, FirstSize(Len(in), capacity))

(***************************************************************************)
(* The registered flate transformers (flate.cc), on an IoVec: a sequence   *)
(* of byte slices.                                                         *)
(***************************************************************************)
\* internal::IoVecFlatten
RECURSIVE IoVecFlatten(_)
IoVecFlatten(iov) == IF iov = <<>> THEN <<>> ELSE Head(iov) \o IoVecFlatten(Tail(iov))

\* deflate(&stream, Z_NO_FLUSH) on a slice that is not the last one returns
\* Z_BUF_ERROR when the slice is empty and an earlier call was made; on the
\* first call the result depends on the zlib release (first_empty_fails)
DeflateRefuses(in_iov, first_empty_fails) ==
  \E k \in 1..(Len(in_iov) - 1) :
    in_iov[k] = <<>> /\ (k > 1 \/ first_empty_fails)

\* FlateTransformerImpl::Transform: the slices are fed in order, Z_FINISH on
\* the last; the output is one slice
FlateTransform(in_iov, first_empty_fails) ==
  IF in_iov = <<>> THEN [err |-> "", out |-> <<(<<>>)>>]
  ELSE IF DeflateRefuses(in_iov, first_empty_fails)
    THEN [err |-> "deflate failed", out |-> <<>>]
  ELSE [err |-> "", out |-> <<Deflate(IoVecFlatten(in_iov))>>]

\* UnflateTransformerImpl::Transform; capacity is tmp_.capacity().  The
\* result carries the new size of tmp_.
UnflateTransform(in_iov, capacity) ==
  IF in_iov = <<>> THEN [err |-> "", out |-> <<>>, size |-> capacity]
  ELSE InflateAll(in_iov, FirstSize(IoVecSize(in_iov), capacity))

(***************************************************************************)
(* Writer (writer.cc).  The writer object and its sink:                    *)
(*   out, good         the std::ostream: bytes written, !fail()            *)
(*   err_              BaseWriter::err_                                     *)
(*   items_count_, sizes_        PackedHeaderBuilder                       *)
(*   buffered_items_, buffered_gib   PackedWriterImpl::buffered_items_:    *)
(*                     its bytes, followed by buffered_gib * 2^30 zeros    *)
(*   block_offsets_    the offsets the WriterIndexer received              *)
(* env is what the environment does during one call:                       *)
(*   sink   the out_->write call that fails ("none", "magic", "size",      *)
(*          "crc", "one", "two"), ixerr  IndexBlock returns an error,      *)
(*          zerr   the transformer returns an error                        *)
(***************************************************************************)
NoEnv == [sink |-> "none", ixerr |-> FALSE, zerr |-> FALSE]

Envs ==
  {NoEnv} \cup {[NoEnv EXCEPT !.sink = s] : s \in {"magic", "size", "crc", "one", "two"}}
          \cup {[NoEnv EXCEPT !.ixerr = TRUE], [NoEnv EXCEPT !.zerr = TRUE]}

\* a cell that keeps the last error instead of the first
SetErrorLastWins(w, err) == [w EXCEPT !.err_ = err]

\* BaseWriter::SetError
SetError(w, err) == IF w.err_ = "" THEN [w EXCEPT !.err_ = err] ELSE w

\* out_->write(data): nothing is written once the stream has failed; a
\* failing write writes nothing and leaves the stream failed
StreamWrite(w, data, fails) ==
  IF ~w.good \/ fails THEN [w EXCEPT !.good = FALSE]
  ELSE [w EXCEPT !.out = w.out \o data]

\* "if (!*out_) { SetError(msg); return false; }" after a write
CheckStream(w, msg) ==
  IF w.good THEN [w |-> w, ret |-> TRUE] ELSE [w |-> SetError(w, msg), ret |-> FALSE]

\* one out_->write and its check; r is the outcome of the statements before
\* it, and nothing runs after a "return false"
WriteChecked(r, data, fails, msg) ==
  IF ~r.ret THEN r ELSE CheckStream(StreamWrite(r.w, data, fails), msg)

MagicPacked == <<46, 118, 71, 235, 52, 7, 60, 46>>
MagicUnpacked == <<252, 174, 149, 49, 240, 217, 189, 32>>

\* BaseWriter::WriteHeader
WriteHeader(w, opts_packed, size, env) ==
  WriteChecked(
    WriteChecked(
      WriteChecked([w |-> w, ret |-> TRUE],
                   IF opts_packed THEN MagicPacked ELSE MagicUnpacked,
                   env.sink = "magic", "Failed to write header magic"),
      LEUint64(size), env.sink = "size", "Failed to write header size"),
    Crc32(LEUint64(size)), env.sink = "crc", "Failed to write header size checksum")

\* a block start taken after the header was written
BlockStartAfterHeader(w) == IF w.good THEN Len(w.out) + 20 ELSE -1

\* block_start = out_->tellp() - initial_pos_, with initial_pos_ = 0; tellp()
\* is -1 on a failed stream
BlockStart(w) == IF w.good THEN Len(w.out) ELSE -1

\* "if (two.size() > 0) { out_->write(two) ... }"
WriteTwo(r, two, env) ==
  IF Len(two) > 0
    THEN WriteChecked(r, two, env.sink = "two", "Failed to write data part 2: ")
  ELSE r

\* the end of BaseWriter::Write: the indexer, when there is one, is told the
\* start of the block.  written: every byte of the block reached the sink;
\* indexed: IndexBlock was called
IndexBlock(r, o, block_start, env) ==
  IF ~r.ret
    THEN [w |-> r.w, written |-> FALSE, indexed |-> FALSE, start |-> block_start,
          ret |-> FALSE]
  ELSE IF ~o.indexer
    THEN [w |-> r.w, written |-> TRUE, indexed |-> FALSE, start |-> block_start,
          ret |-> TRUE]
  ELSE [w |-> IF env.ixerr
                THEN SetError([r.w EXCEPT !.block_offsets_ = Append(@, block_start)],
                              "Indexer error: index failed")
              ELSE [r.w EXCEPT !.block_offsets_ = Append(@, block_start)],
        written |-> TRUE, indexed |-> TRUE, start |-> block_start, ret |-> ~env.ixerr]

\* BaseWriter::Write(one, two)
BaseWriterWrite(w, o, one, two, env) ==
  IndexBlock(
    WriteTwo(
      WriteChecked(WriteHeader(w, o.packed, Len(one) + Len(two), env),
                   one, env.sink = "one", "Failed to write data part 1: "),
      two, env),
    o, BlockStart(w), env)

\* the end of PackedWriterImpl::Flush: the buffers are cleared when the block
\* was written
ClearBuffers(r) ==
  IF ~r.ret THEN r
  ELSE [r EXCEPT !.w = [r.w EXCEPT !.items_count_ = 0, !.sizes_ = <<>>,
                                   !.buffered_items_ = <<>>, !.buffered_gib = 0]]

\* the transformer of the writer on one slice; the only transformer modelled
\* is the flate CompressTransformerImpl
RunTransformer(o, data, env) ==
  IF o.transformer = "flate" THEN CompressTransform(data, env.zerr)
  ELSE [err |-> "", out |-> data]

NotWritten(w, ret) ==
  [w |-> w, written |-> FALSE, indexed |-> FALSE, start |-> -1, ret |-> ret]

\* PackedWriterImpl::Flush on the transformer's result t
FlushTransformed(w, o, t, env) ==
  IF t.err # "" THEN NotWritten(SetError(w, t.err), FALSE)
  ELSE ClearBuffers(
         BaseWriterWrite(w, o, AppendHeader(w.items_count_, w.sizes_), t.out, env))

\* PackedWriterImpl::Flush
Flush(w, o, env) == FlushTransformed(w, o, RunTransformer(o, w.buffered_items_, env), env)

\* the first test of PackedWriterImpl::Write
ItemTooLarge(item, o) == CastInt(ItemSize(item)) > o.max_packed_bytes

\* the second test of PackedWriterImpl::Write: the pending block must be
\* flushed before the item is added
NeedFlush(w, item, o) ==
  \/ (w.items_count_ + 1) > o.max_packed_items
  \/ CastInt(SizeAdd(SizeT(w.buffered_gib, Len(w.buffered_items_)), ItemSize(item)))
       > o.max_packed_bytes

\* PackedHeaderBuilder::AddItemSize and the insert into buffered_items_
AddItem(w, item) ==
  [w EXCEPT !.items_count_ = w.items_count_ + 1,
            !.sizes_ = AppendUVarint(w.sizes_, CastUint32(ItemSize(item))),
            !.buffered_items_ = w.buffered_items_ \o item.bytes,
            !.buffered_gib = w.buffered_gib + item.gib]

\* the end of PackedWriterImpl::Write, after the Flush (if any) with outcome
\* fl: the item is added to the pending block
AddAfterFlush(fl, item) ==
  IF ~fl.ret THEN fl
  ELSE IF IsUint32Max(fl.w.items_count_)
    THEN [fl EXCEPT !.w = SetError(fl.w, "Could not add new item"), !.ret = FALSE]
  ELSE [fl EXCEPT !.w = AddItem(fl.w, item)]

\* PackedWriterImpl::Write.  flushed: Flush was called
PackedWrite(w, o, item, env) ==
  IF ItemTooLarge(item, o)
    THEN [flushed |-> FALSE] @@ NotWritten(SetError(w, "Item size exceeds block size"), FALSE)
  ELSE IF NeedFlush(w, item, o)
    THEN AddAfterFlush([flushed |-> TRUE] @@ Flush(w, o, env), item)
  ELSE AddAfterFlush([flushed |-> FALSE] @@ NotWritten(w, TRUE), item)

\* UnpackedWriterImpl::Write on the transformer's result t
UnpackedWriteTransformed(w, o, t, env) ==
  IF t.err # "" THEN NotWritten(SetError(w, t.err), FALSE)
  ELSE BaseWriterWrite(w, o, t.out, <<>>, env)

\* UnpackedWriterImpl::Write
UnpackedWrite(w, o, item, env) ==
  [flushed |-> FALSE]
    @@ UnpackedWriteTransformed(w, o, RunTransformer(o, item.bytes, env), env)

\* Writer::Write
WriterWrite(w, o, item, env) ==
  IF o.packed THEN PackedWrite(w, o, item, env) ELSE UnpackedWrite(w, o, item, env)

\* PackedWriterImpl::Close and UnpackedWriterImpl::Close; BaseWriter::Close
\* returns true when cleanup_ is null, as it is for NewWriter(std::ostream*)
WriterClose(w, o, env) ==
  IF o.packed THEN [flushed |-> TRUE] @@ Flush(w, o, env)
  ELSE [flushed |-> FALSE] @@ NotWritten(w, TRUE)

(***************************************************************************)
(* Legacy readers (legacy_reader.cc).  The reader object and its source:   *)
(*   pos, failed       the std::istream over the file: bytes consumed, and *)
(*                     eofbit | failbit, set by a read that found too few  *)
(*                     bytes; a failed stream reads nothing                *)
(*   err_              the ErrorReporter                                   *)
(*   buf_              BaseReader::buf_                                     *)
(*   block_, items_, items_start_, cur_item_     PackedReaderImpl (block_  *)
(*                     also UnpackedReaderImpl); an item is its offset and *)
(*                     size                                                *)
(*   capacity          tmp_.capacity() of the UncompressTransformerImpl    *)
(***************************************************************************)
\* ErrorReporter::Set
ErrorReporterSet(r, err) ==
  IF r.err_ = "" /\ err # "" THEN [r EXCEPT !.err_ = err] ELSE r

\* legacy_reader.cc: MaxReadRecordSize = 1ULL << 29
MaxReadRecordSize == 536870912

HeaderSize == 20

\* BaseReader::ReadBytes(data, bytes): the bytes read
BytesRead(r, file, bytes) ==
  IF r.failed THEN <<>> ELSE Slice(file, r.pos + 1, Min(r.pos + bytes, Len(file)))

\* BaseReader::ReadBytes(data, bytes): the stream afterwards
AfterRead(r, file, bytes) ==
  IF r.failed \/ bytes <= 0 THEN r
  ELSE IF r.pos + bytes <= Len(file) THEN [r EXCEPT !.pos = r.pos + bytes]
  ELSE [r EXCEPT !.pos = Len(file), !.failed = TRUE, !.eof = TRUE]

\* the value of up to four little-endian bytes
RECURSIVE LEValue(_)
LEValue(bytes) == IF bytes = <<>> THEN 0 ELSE Head(bytes) + 256 * LEValue(Tail(bytes))

\* *size > MaxReadRecordSize, for the eight little-endian bytes of *size
SizeTooLarge(size8) ==
  \/ \E i \in 5..8 : size8[i] # 0
  \/ size8[4] >= 128
  \/ LEValue(Slice(size8, 1, 4)) > MaxReadRecordSize

\* a ReadHeader that refuses a size of MaxReadRecordSize too
CheckFullHeaderBelow(r, header, magic) ==
  IF Len(header) # HeaderSize
    THEN [r |-> ErrorReporterSet(r, "Corrupt header"), ok |-> FALSE, size |-> 0]
  ELSE IF Slice(header, 1, 8) # magic
    THEN [r |-> ErrorReporterSet(r, "Wrong header magic"), ok |-> FALSE, size |-> 0]
  ELSE IF r.err_ # "" THEN [r |-> r, ok |-> FALSE, size |-> 0]
  ELSE IF Crc32(Slice(header, 9, 16)) # Slice(header, 17, 20)
    THEN [r |-> ErrorReporterSet(r, "corrupt header crc"), ok |-> FALSE, size |-> 0]
  ELSE IF SizeTooLarge(Slice(header, 9, 16))
            \/ LEValue(Slice(header, 9, 12)) >= MaxReadRecordSize
    THEN [r |-> ErrorReporterSet(r, "unreasonably large read record encountered"),
          ok |-> FALSE, size |-> 0]
  ELSE [r |-> r, ok |-> TRUE, size |-> LEValue(Slice(header, 9, 12))]

\* the tests of ReadHeader after the header was read in full
CheckFullHeader(r, header, magic) ==
  IF Len(header) # HeaderSize
    THEN [r |-> ErrorReporterSet(r, "Corrupt header"), ok |-> FALSE, size |-> 0]
  ELSE IF Slice(header, 1, 8) # magic
    THEN [r |-> ErrorReporterSet(r, "Wrong header magic"), ok |-> FALSE, size |-> 0]
  ELSE IF r.err_ # "" THEN [r |-> r, ok |-> FALSE, size |-> 0]
  ELSE IF Crc32(Slice(header, 9, 16)) # Slice(header, 17, 20)
    THEN [r |-> ErrorReporterSet(r, "corrupt header crc"), ok |-> FALSE, size |-> 0]
  ELSE IF SizeTooLarge(Slice(header, 9, 16))
    THEN [r |-> ErrorReporterSet(r, "unreasonably large read record encountered"),
          ok |-> FALSE, size |-> 0]
  ELSE [r |-> r, ok |-> TRUE, size |-> LEValue(Slice(header, 9, 12))]

\* a ReadHeader that takes every read of no bytes for the end of the file
CheckHeaderAlwaysEof(r, header, magic) ==
  IF Len(header) <= 0 THEN [r |-> r, ok |-> FALSE, size |-> 0]
  ELSE CheckFullHeader(r, header, magic)

\* BaseReader::ReadHeader, after the read of the header bytes: a read of no
\* bytes is the end of the file when the stream says so, and an error with
\* strerror(errno) otherwise
CheckHeader(r, header, magic) ==
  IF Len(header) <= 0
    THEN [r |-> IF r.eof THEN r
                ELSE ErrorReporterSet(r, "Failed to read file: " \o r.errno),
          ok |-> FALSE, size |-> 0]
  ELSE CheckFullHeader(r, header, magic)

\* BaseReader::ReadHeader
ReadHeader(r, file, magic) ==
  CheckHeader(AfterRead(r, file, HeaderSize), BytesRead(r, file, HeaderSize), magic)

\* BaseReader::Scan, after ReadHeader with outcome h
ReadBody(h, file) ==
  IF ~h.ok THEN [r |-> h.r, ok |-> FALSE]
  ELSE IF Len(BytesRead(h.r, file, h.size)) # h.size
    THEN [r |-> ErrorReporterSet([AfterRead(h.r, file, h.size) EXCEPT
                                    !.buf_ = BytesRead(h.r, file, h.size)],
                                 "failed to read body"),
          ok |-> FALSE]
  ELSE [r |-> [AfterRead(h.r, file, h.size) EXCEPT !.buf_ = BytesRead(h.r, file, h.size)],
        ok |-> TRUE]

\* BaseReader::Scan
BaseReaderScan(r, file, magic) == ReadBody(ReadHeader(r, file, magic), file)

\* RunTransformer (legacy_reader.cc) on the result t of Transform: the
\* output replaces the whole buffer
TransformBlock(s, t) ==
  IF t.err # "" THEN [r |-> ErrorReporterSet([s.r EXCEPT !.capacity = Max(@, t.size)], t.err),
                      ok |-> FALSE]
  ELSE [r |-> [s.r EXCEPT !.block_ = t.out, !.capacity = Max(@, t.size)], ok |-> TRUE]

\* UnpackedReaderImpl::Scan, after r_.Scan() with outcome s
UnpackedAfterScan(s, transformer) ==
  IF ~s.ok THEN s
  ELSE IF transformer = "flate"
    THEN TransformBlock([s EXCEPT !.r.block_ = s.r.buf_, !.r.buf_ = <<>>],
                        UncompressTransform(s.r.buf_, s.r.capacity))
  ELSE [s EXCEPT !.r.block_ = s.r.buf_, !.r.buf_ = <<>>]

\* UnpackedReaderImpl::Scan
UnpackedScan(r, file, transformer) ==
  UnpackedAfterScan(BaseReaderScan(r, file, MagicUnpacked), transformer)

\* BinaryParser::ReadUVarint at offset pos of data (pos bytes consumed): the
\* value v and the new offset.  A value of 2^28 or more is not computed:
\* big says that the encoding went on after four bytes.
RECURSIVE ReadUVarint(_, _, _, _)
ReadUVarint(data, pos, i, v) ==
  IF pos >= Len(data) THEN [v |-> v, pos |-> pos, big |-> i > 4]
  ELSE IF data[pos + 1] < 128
    THEN [v |-> IF i < 4 THEN v + data[pos + 1] * (128 ^ i) ELSE v, pos |-> pos + 1,
          big |-> i >= 4 /\ data[pos + 1] > 0]
  ELSE ReadUVarint(data, pos + 1, i + 1,
                   IF i < 4 THEN v + (data[pos + 1] % 128) * (128 ^ i) ELSE v)

\* the 7-bit group number i (from 0) of the varint of len bytes at offset
\* pos of data
VarintGroup(data, pos, len, i) == IF i < len THEN data[pos + i + 1] % 128 ELSE 0

\* the value of the varint of at most five bytes at offset pos of data, as
\* a size
VarintSize(data, pos, len) ==
  SizeT(VarintGroup(data, pos, len, 4) \div 4,
        VarintGroup(data, pos, len, 0) + VarintGroup(data, pos, len, 1) * 128
          + VarintGroup(data, pos, len, 2) * 16384
          + VarintGroup(data, pos, len, 3) * 2097152
          + (VarintGroup(data, pos, len, 4) % 4) * 268435456)

\* static_cast<int>(item_size) for that varint: the low 32 bits of the
\* value, read as two's complement
VarintInt(data, pos, len) == CastInt(VarintSize(data, pos, len))

\* the loop of PackedReaderImpl::ReadBlock that reads n item sizes starting
\* at offset pos: items_ and the parser's offset afterwards
RECURSIVE ReadItemSizes(_, _, _, _)
ReadItemSizes(data, pos, n, items) ==
  IF n = 0 THEN [items |-> items, pos |-> pos]
  ELSE ReadItemSizes(
         data, ReadUVarint(data, pos, 0, 0).pos, n - 1,
         Append(items,
                [offset |-> IF items = <<>> THEN 0
                            ELSE items[Len(items)].offset + items[Len(items)].size,
                 size |-> VarintInt(data, pos, ReadUVarint(data, pos, 0, 0).pos - pos)]))

\* the end of PackedReaderImpl::ReadBlock: the block must end where the last
\* item ends
CheckLimit(s) ==
  IF ~s.ok THEN s
  ELSE IF s.r.items_[Len(s.r.items_)].offset + s.r.items_[Len(s.r.items_)].size
            # Len(s.r.block_) - s.r.items_start_
    THEN [r |-> ErrorReporterSet(s.r, "junk at the end of block"), ok |-> FALSE]
  ELSE [s EXCEPT !.ok = (s.r.err_ = "")]

\* PackedReaderImpl::ReadBlock from the checksum test on; p is the outcome
\* of the item size loop
CheckItems(r, p, transformer) ==
  IF Crc32(Slice(r.block_, 5, p.pos)) # Slice(r.block_, 1, 4)
    THEN [r |-> ErrorReporterSet([r EXCEPT !.items_ = p.items, !.items_start_ = p.pos],
                                 "wrong crc"),
          ok |-> FALSE]
  ELSE IF transformer = "flate"
    THEN CheckLimit(
           TransformBlock([r |-> [r EXCEPT !.items_ = p.items, !.items_start_ = 0],
                           ok |-> TRUE],
                          UncompressTransform(Slice(r.block_, p.pos + 1, Len(r.block_)),
                                              r.capacity)))
  ELSE CheckLimit([r |-> [r EXCEPT !.items_ = p.items, !.items_start_ = p.pos],
                   ok |-> TRUE])

\* PackedReaderImpl::ReadBlock from the n_items test on; n is the outcome of
\* ReadUVarint
CheckItemCount(r, n, transformer) ==
  IF n.big \/ n.v <= 0 \/ n.v >= Len(r.block_)
    THEN [r |-> ErrorReporterSet(r, "invalid block header (n_items)"), ok |-> FALSE]
  ELSE CheckItems(r, ReadItemSizes(r.block_, n.pos, n.v, <<>>), transformer)

\* PackedReaderImpl::ReadBlock, after r_.Scan() with outcome s
ParseBlock(s, transformer) ==
  IF ~s.ok THEN s
  ELSE IF Len(s.r.buf_) < 4
    THEN [r |-> ErrorReporterSet([s.r EXCEPT !.block_ = s.r.buf_, !.buf_ = <<>>],
                                 "Failed to read uint32"),
          ok |-> FALSE]
  ELSE IF s.r.err_ # ""
    THEN [r |-> [s.r EXCEPT !.block_ = s.r.buf_, !.buf_ = <<>>], ok |-> FALSE]
  ELSE CheckItemCount([s.r EXCEPT !.block_ = s.r.buf_, !.buf_ = <<>>],
                      ReadUVarint(s.r.buf_, 4, 0, 0), transformer)

\* PackedReaderImpl::ReadBlock
ReadBlock(r, file, transformer) ==
  ParseBlock(BaseReaderScan([r EXCEPT !.cur_item_ = 0, !.items_ = <<>>], file, MagicPacked),
             transformer)

\* PackedReaderImpl::Scan; ReadBlock runs at most once, since a block it
\* accepts has an item
PackedScan(r, file, transformer) ==
  IF r.cur_item_ + 1 >= Len(r.items_) THEN ReadBlock(r, file, transformer)
  ELSE [r |-> [r EXCEPT !.cur_item_ = r.cur_item_ + 1], ok |-> TRUE]

\* Reader::Scan of the reader that matches the writer's options
ReaderScan(r, file, o) ==
  IF o.packed THEN PackedScan(r, file, o.transformer)
  ELSE UnpackedScan(r, file, o.transformer)

\* bytes read outside block_ can be anything; two fillings stand for them
Garbage == {0, 255}

\* PackedReaderImpl::Get and UnpackedReaderImpl::Get after a Scan that
\* returned true: the values the span can hold
Get(r, o) ==
  IF ~o.packed THEN {r.block_}
  ELSE LET item == r.items_[r.cur_item_ + 1]
           from == r.items_start_ + item.offset
       IN  IF from + item.size <= Len(r.block_)
             THEN {Slice(r.block_, from + 1, from + item.size)}
           ELSE {[k \in 1..item.size |->
                    IF from + k <= Len(r.block_) THEN r.block_[from + k] ELSE g] :
                 g \in Garbage}

\* a Seek that also moves the source back to where the reader started
ReaderSeekRewinds(r) ==
  [r EXCEPT !.err_ = IF @ = "" THEN "Seek not supported" ELSE @, !.pos = r.start]

\* UnpackedReaderImpl::Seek and PackedReaderImpl::Seek
ReaderSeek(r) == ErrorReporterSet(r, "Seek not supported")

(***************************************************************************)
(* State.                                                                  *)
(*   opts    the WriterOpts the writer was built with                      *)
(*   wr      the writer object and its sink (see above)                    *)
(*   gh      history of the writer: accepted, the items whose Write        *)
(*           returned true; pending, the items held in buffered_items_;    *)
(*           blocks, the blocks whose bytes all reached the sink, each     *)
(*           with its start offset, payload size and items                 *)
(*   last    the last Write / Close call: its argument, result and effect  *)
(*   ctl     calls made so far and faults left to inject                   *)
(*   rd      the reader object and its source (see above); the file it     *)
(*           reads is the sink of the writer                               *)
(*   rh      history of the reader: yielded, what Get() returned after     *)
(*           each Scan that returned true; last, the last call; ended, a   *)
(*           Scan has returned false; late, the Scans made after that      *)
(*   sets    the messages passed to ErrorReporter::Set (reporter) and to   *)
(*           BaseWriter::SetError (writer) by a caller exercising the two  *)
(*           error cells                                                   *)
(***************************************************************************)
(***************************************************************************)
(* The transformer registry (registry.cc).  A config string is kept as the *)
(* sequence of its pieces: each piece is a run of non-space characters     *)
(* such as "flate" or a whitespace character; a name is a config without   *)
(* whitespace.                                                             *)
(***************************************************************************)
Whitespace == {" "}

Pieces == {"flate", "zstd", "5", " "}

ConfigStrings == UNION {[1..n -> Pieces] : n \in 0..MaxConfigLen}

\* std::regex_match(s, std::regex("^(\\S+)$"))
MatchName(s) == Len(s) > 0 /\ \A i \in 1..Len(s) : s[i] \notin Whitespace

\* the end of the run of whitespace that starts at s[k]
RECURSIVE SpaceRunEnd(_, _)
SpaceRunEnd(s, k) ==
  IF k < Len(s) /\ s[k + 1] \in Whitespace THEN SpaceRunEnd(s, k + 1) ELSE k

\* the first whitespace of s, or 0
FirstSpace(s) ==
  IF \E k \in 1..Len(s) : s[k] \in Whitespace
    THEN CHOOSE k \in 1..Len(s) :
           s[k] \in Whitespace /\ \A j \in 1..(k - 1) : s[j] \notin Whitespace
  ELSE 0

\* std::regex_match(s, m, std::regex("^(\\S+)\\s+(.*)$")): m[1] and m[2]
MatchNameArgs(s) ==
  IF FirstSpace(s) < 2 THEN [matched |-> FALSE, name |-> <<>>, args |-> <<>>]
  ELSE [matched |-> TRUE, name |-> SubSeq(s, 1, FirstSpace(s) - 1),
        args |-> SubSeq(s, SpaceRunEnd(s, FirstSpace(s)) + 1, Len(s))]

\* FindEntry up to the lock: `name` is still empty when the second regex is
\* matched against it
FindEntryName(config) ==
  IF MatchName(config) THEN [err |-> "", name |-> config, args |-> <<>>]
  ELSE LET name == <<>>
           m == MatchNameArgs(name)
       IN  IF ~m.matched
             THEN [err |-> "Failed to extract transformer name", name |-> name,
                   args |-> <<>>]
           ELSE [err |-> "", name |-> m.name, args |-> m.args]

(***************************************************************************)
(* Chunks (chunk.h, chunk.cc).  A chunk is ChunkSize bytes: a header of    *)
(* ChunkHeaderSize bytes (magic, checksum, flag, payload size, total       *)
(* chunks, chunk index) and the payload area.  The model keeps the header  *)
(* bytes and the bytes at the start of the payload area; the bytes after   *)
(* them are zero.                                                          *)
(***************************************************************************)
MagicInvalid == <<228, 231, 154, 193, 179, 246, 183, 162>>
MagicHeader == <<217, 225, 217, 92, 194, 22, 4, 247>>
MagicTrailer == <<254, 186, 26, 215, 203, 223, 117, 58>>

ChunkSize == 32768
ChunkHeaderSize == 28
MaxChunkPayloadSize == ChunkSize - ChunkHeaderSize

\* the first n bytes of the payload area of chunk c
PayloadArea(c, n) == [i \in 1..n |-> IF i <= Len(c.payload) THEN c.payload[i] ELSE 0]

\* a uint32_t read by ReadLEUint32 is kept as its four bytes; v > bound for
\* a bound below 2^16
Exceeds(v, bound) == v[3] > 0 \/ v[4] > 0 \/ v[1] + 256 * v[2] > bound

\* the value of a uint32_t below 2^16
Low16(v) == v[1] + 256 * v[2]

\* index + 1 in uint32_t arithmetic
RECURSIVE Inc32(_)
Inc32(v) ==
  IF v = <<>> THEN <<>>
  ELSE IF Head(v) < 255 THEN <<Head(v) + 1>> \o Tail(v)
  ELSE <<0>> \o Inc32(Tail(v))

\* a chunk as a v2 writer lays it out: the checksum is the CRC32 of the
\* bytes 12 .. 28 + size
MakeChunk(magic, flag, total, index, payload) ==
  LET body == LEBytes(flag, 4) \o LEBytes(Len(payload), 4) \o LEBytes(total, 4)
                \o LEBytes(index, 4)
  IN  [head |-> magic \o Crc32(body \o payload) \o body, payload |-> payload]

\* a chunk file: whole chunks followed by tail bytes of a cut chunk
ChunkFileSize(file) == Len(file.chunks) * ChunkSize + file.tail

\* in_->Read(buf, ChunkSize, &n) at a chunk boundary: the bytes read
ReadCount(file, pos) ==
  IF pos + ChunkSize <= Len(file.chunks) * ChunkSize THEN ChunkSize
  ELSE IF pos < ChunkFileSize(file) THEN ChunkFileSize(file) - pos
  ELSE 0

\* a ReadChunk that does not compare the checksums
ParseChunkUnchecked(r, c, size) ==
  IF Exceeds(size, MaxChunkPayloadSize)
    THEN [ok |-> FALSE, r |-> ErrorReporterSet(r, "Invalid chunk size"), c |-> c]
  ELSE [ok |-> TRUE, r |-> r,
        c |-> [magic |-> Slice(c.head, 1, 8), flag |-> Slice(c.head, 13, 16),
               total |-> Slice(c.head, 21, 24), index |-> Slice(c.head, 25, 28),
               payload |-> PayloadArea(c, Low16(size))]]

\* ChunkReader::ReadChunk once the buffer holds the chunk c: the header is
\* parsed, the size and the checksum are tested
ParseChunk(r, c, size) ==
  IF Exceeds(size, MaxChunkPayloadSize)
    THEN [ok |-> FALSE, r |-> ErrorReporterSet(r, "Invalid chunk size"), c |-> c]
  ELSE IF Slice(c.head, 9, 12)
            # Crc32(Slice(c.head, 13, ChunkHeaderSize) \o PayloadArea(c, Low16(size)))
    THEN [ok |-> FALSE, r |-> ErrorReporterSet(r, "Chunk checksum mismatch"), c |-> c]
  ELSE [ok |-> TRUE, r |-> r,
        c |-> [magic |-> Slice(c.head, 1, 8), flag |-> Slice(c.head, 13, 16),
               total |-> Slice(c.head, 21, 24), index |-> Slice(c.head, 25, 28),
               payload |-> PayloadArea(c, Low16(size))]]

\* what the Read number k of a call does: fault = k, it returns an error;
\* fault = -k, it returns fewer bytes than it could (ReadSeeker::Read reads
\* "up to" the bytes asked for, and at least one before the end of file)
ReadHow(fault, k) ==
  IF fault = k THEN "error" ELSE IF fault = -k THEN "short" ELSE "whole"

\* the bytes a short Read returns when n bytes are left of the request
ShortCount(n) == (n + 1) \div 2

\* a ReadChunk that reads into the first buffer of the pool
TakeFirstBuf(r) == 1

\* free_chunks_[next_free_chunk_]: the buffer ReadChunk reads into, counted
\* from 1
TakeBuf(r) == r.next_free_chunk_ + 1

\* the pool after the Read of n bytes at pos into buffer b; the pool grows
\* when b is past its end.  A buffer holds the number of the chunk read
\* into it whole, or 0: a new buffer, or one partly written
StoreBuf(pool, b, pos, n, how) ==
  LET held == IF n = ChunkSize /\ how # "error" THEN pos \div ChunkSize + 1
              ELSE IF n <= 0 /\ how # "error" /\ b <= Len(pool) THEN pool[b]
              ELSE 0
  IN  IF b > Len(pool) THEN Append(pool, held) ELSE [pool EXCEPT ![b] = held]

\* ChunkReader::ReadChunk; how: what the source's Read does
ReadChunk(r, file, how) ==
  LET n == IF how = "short" THEN ShortCount(ReadCount(file, r.pos))
           ELSE ReadCount(file, r.pos)
      taken == [r EXCEPT !.next_free_chunk_ = @ + 1,
                         !.free_chunks_ = StoreBuf(@, TakeBuf(r), r.pos, n, how),
                         !.buf = TakeBuf(r),
                         !.pos = IF how = "error" THEN @ ELSE @ + n,
                         !.reads = @ + 1]
  IN  IF how = "error" \/ n <= 0 THEN [ok |-> FALSE, r |-> taken, c |-> <<>>]
      ELSE IF n # ChunkSize
        THEN [ok |-> FALSE, r |-> ErrorReporterSet(taken, "Failed to read chunk"),
              c |-> <<>>]
      ELSE ParseChunk([taken EXCEPT !.seen = Append(@, r.pos \div ChunkSize + 1)],
                      file.chunks[r.pos \div ChunkSize + 1],
                      Slice(file.chunks[r.pos \div ChunkSize + 1].head, 17, 20))

\* the tests of a Scan that does not compare the total of a chunk
ChunkFitsAnyTotal(r, c, magic_, total_chunks) ==
  IF magic_ # c.magic THEN "Magic number changed in the middle of a chunk sequence"
  ELSE IF c.index # LEBytes(Len(r.iov_), 4) THEN "Wrong chunk index"
  ELSE ""

\* the tests ChunkReader::Scan makes on a chunk read; "" when it fits
ChunkFits(r, c, magic_, total_chunks) ==
  IF magic_ # c.magic THEN "Magic number changed in the middle of a chunk sequence"
  ELSE IF c.index # LEBytes(Len(r.iov_), 4) THEN "Wrong chunk index"
  ELSE IF total_chunks # c.total THEN "Wrong total chunk header"
  ELSE ""

\* the loop of ChunkReader::Scan; fault: the number of the Read call that
\* returns an error, or minus the number of the Read call that is short, 0
\* for none
RECURSIVE ScanLoop(_, _, _, _)
ScanChunk(r, file, total_chunks, fault, rc) ==
  IF ~rc.ok \/ rc.r.err_ # "" THEN [ok |-> FALSE, r |-> rc.r]
  ELSE LET first == rc.r.iov_ = <<>>
           magic_ == IF first THEN rc.c.magic ELSE rc.r.magic_
           total == IF first THEN rc.c.total ELSE total_chunks
           msg == ChunkFits(rc.r, rc.c, magic_, total)
       IN  IF msg # ""
             THEN [ok |-> FALSE,
                   r |-> ErrorReporterSet([rc.r EXCEPT !.magic_ = magic_], msg)]
           ELSE IF Inc32(rc.c.index) = rc.c.total
             THEN [ok |-> TRUE,
                   r |-> [rc.r EXCEPT !.magic_ = magic_,
                                      !.iov_ = Append(@, rc.c.payload),
                                      !.spans = Append(@, rc.r.buf)]]
           ELSE ScanLoop([rc.r EXCEPT !.magic_ = magic_,
                                      !.iov_ = Append(@, rc.c.payload),
                                      !.spans = Append(@, rc.r.buf)],
                         file, total, fault)

ScanLoop(r, file, total_chunks, fault) ==
  ScanChunk(r, file, total_chunks, fault, ReadChunk(r, file, ReadHow(fault, r.reads + 1)))

\* ChunkReader::Scan
ChunkScan(r, file, fault) ==
  IF r.err_ # ""
    THEN [ok |-> FALSE,
          r |-> [r EXCEPT !.magic_ = MagicInvalid, !.iov_ = <<>>, !.spans = <<>>,
                          !.next_free_chunk_ = 0, !.seen = <<>>, !.reads = 0]]
  ELSE ScanLoop([r EXCEPT !.magic_ = MagicInvalid, !.iov_ = <<>>, !.spans = <<>>,
                          !.next_free_chunk_ = 0, !.seen = <<>>, !.reads = 0],
                file, LEBytes(0, 4), fault)

\* in_->Seek(offset, whence, ..) as lseek(2): an offset before the start of
\* the file is an error and leaves the position
SourceSeek(r, to) ==
  IF to < 0 THEN ErrorReporterSet(r, "Invalid argument") ELSE [r EXCEPT !.pos = to]

\* a Seek that leaves the source where it is
ChunkSeekStays(r, off) == r

\* ChunkReader::Seek
ChunkSeek(r, off) == SourceSeek(r, off)

\* static_cast<int>(index) + 1 for an index below 2^16
IndexPlusOne(index) == Low16(index) + 1

\* a SeekLastBlock that goes back by index chunks
SeekFromLastByIndex(r, file, rc) ==
  IF rc.r.err_ # "" THEN rc.r
  ELSE IF ~rc.ok THEN ErrorReporterSet(rc.r, "Failed to read last chunk")
  ELSE IF rc.c.magic # MagicTrailer
    THEN ErrorReporterSet(rc.r, "Wrong magic for the trailer block")
  ELSE SourceSeek(rc.r, ChunkFileSize(file) - ChunkSize * Low16(rc.c.index))

\* ChunkReader::SeekLastBlock after the first Seek: the last chunk is read
SeekFromLast(r, file, rc) ==
  IF rc.r.err_ # "" THEN rc.r
  ELSE IF ~rc.ok THEN ErrorReporterSet(rc.r, "Failed to read last chunk")
  ELSE IF rc.c.magic # MagicTrailer
    THEN ErrorReporterSet(rc.r, "Wrong magic for the trailer block")
  ELSE SourceSeek(rc.r, ChunkFileSize(file) - ChunkSize * IndexPlusOne(rc.c.index))

\* ChunkReader::SeekLastBlock
SeekLastBlock(r, file, fault) ==
  LET s == SourceSeek([r EXCEPT !.seen = <<>>, !.reads = 0],
                      ChunkFileSize(file) - ChunkSize)
  IN  IF s.err_ # "" THEN s
      ELSE SeekFromLast(s, file, ReadChunk(s, file, ReadHow(fault, 1)))

(***************************************************************************)
(* The ChunkReader on a file too long to be stored chunk by chunk.  The    *)
(* file is `data` blocks of one chunk each followed by one trailer block   *)
(* of `trailer` well-formed chunks (none when trailer = 0); offsets are    *)
(* counted in chunks of ChunkSize bytes.  The reader is [pos, err_].       *)
(***************************************************************************)
LongSize(file) == file.data + file.trailer

\* the header fields of the chunk at offset p * ChunkSize
LongChunkAt(file, p) ==
  IF p < file.data THEN [magic |-> MagicPacked, index |-> 0, total |-> 1]
  ELSE [magic |-> MagicTrailer, index |-> p - file.data, total |-> file.trailer]

\* 2^32 / ChunkSize and 2^31 / ChunkSize: the int values that are multiples
\* of ChunkSize are -IntHalf .. IntHalf - 1 times ChunkSize
IntSpan == 131072
IntHalf == 65536

\* -ChunkSize * n / ChunkSize computed in 32 bits, modulo 2^32
WrappedMinus(n) ==
  LET m == (IntSpan - (n % IntSpan)) % IntSpan
  IN  IF m >= IntHalf THEN m - IntSpan ELSE m

\* const off_t off = -ChunkSize * (static_cast<int>(index) + 1), divided by
\* ChunkSize.  The product is an int: when it is below INT_MIN the
\* behaviour is undefined, and a build yields the product computed in 64
\* bits or the product modulo 2^32
SeekBackOffsets(index) ==
  IF index + 1 <= IntHalf THEN {-(index + 1)}
  ELSE {-(index + 1), WrappedMinus(index + 1)}

\* in_->Seek(off, SEEK_END, ..) as lseek(2), in chunks
LongSourceSeek(r, file, off) ==
  IF LongSize(file) + off < 0
    THEN ErrorReporterSet(r, "Invalid argument")
  ELSE [r EXCEPT !.pos = LongSize(file) + off]

\* ChunkReader::SeekLastBlock; rerr: the Read of the last chunk returns an
\* error; off: the offset computed from the index of the last chunk
LongSeekLastBlock(r, file, rerr, off) ==
  LET s == LongSourceSeek(r, file, -1)
      c == LongChunkAt(file, s.pos)
  IN  IF s.err_ # "" THEN s
      ELSE IF rerr THEN ErrorReporterSet(s, "Failed to read last chunk")
      ELSE IF c.magic # MagicTrailer
        THEN ErrorReporterSet([s EXCEPT !.pos = @ + 1],
                              "Wrong magic for the trailer block")
      ELSE LongSourceSeek(s, file, off)

\* ChunkReader::Scan on the long file: the outcome, the reader afterwards
\* and the block returned, as its magic and its number of chunks
LongScan(r, file) ==
  LET c == LongChunkAt(file, r.pos)
      none == [magic |-> MagicInvalid, chunks |-> 0]
  IN  IF r.err_ # "" \/ r.pos >= LongSize(file) THEN [ok |-> FALSE, r |-> r, block |-> none]
      ELSE IF c.index # 0
        THEN [ok |-> FALSE,
              r |-> ErrorReporterSet([r EXCEPT !.pos = @ + 1], "Wrong chunk index"),
              block |-> none]
      ELSE [ok |-> TRUE, r |-> [r EXCEPT !.pos = @ + c.total],
            block |-> [magic |-> c.magic, chunks |-> c.total]]

(***************************************************************************)
(* BinaryParser (internal.h, internal.cc).  A parser is the record         *)
(*   data     the buffer [data, data + bytes) it was given                 *)
(*   pos      data_, as an offset from the start of the buffer             *)
(*   bytes_   the count of bytes it takes to be left                       *)
(*   err      the message its ErrorReporter holds                          *)
(*   thrown   an exception left the call                                   *)
(* A uint64_t is kept as its 64 bits from the low end.                     *)
(***************************************************************************)
\* ErrorReporter::Set on the message alone
FirstError(err, msg) == IF err = "" THEN msg ELSE err

BinaryParser(data, bytes, err) ==
  [data |-> data, pos |-> 0, bytes_ |-> bytes, err |-> err, thrown |-> FALSE]

Zero64 == [k \in 1..64 |-> 0]

\* bit number k of a byte
BitOf(byte, k) == (byte \div (2 ^ k)) % 2

\* what a build makes of a shift of a uint64_t by 64 bits or more: the count
\* is taken modulo 64, or every bit is shifted out
ShiftBuilds == {"wrapped", "zero"}

\* static_cast<uint64_t>(byte) << shift
Shl64(byte, shift, over) ==
  LET s == IF shift >= 64 /\ over = "wrapped" THEN shift % 64 ELSE shift
  IN  [k \in 1..64 |-> IF k - 1 >= s /\ k - 1 - s < 8 THEN BitOf(byte, k - 1 - s) ELSE 0]

\* a | b
Or64(a, b) == [k \in 1..64 |-> IF a[k] + b[k] > 0 THEN 1 ELSE 0]

\* --bytes_; ++data_
NextByte(P) == [P EXCEPT !.pos = @ + 1, !.bytes_ = @ - 1]

\* the loop of BinaryParser::ReadUVarint: the value returned and the parser
\* afterwards
RECURSIVE UVarintLoop(_, _, _, _, _)
UVarintLoop(P, v, shift, i, over) ==
  IF P.bytes_ <= 0 THEN [v |-> v, P |-> P]
  ELSE IF P.data[P.pos + 1] < 128
    THEN IF i > 9 \/ (i = 9 /\ P.data[P.pos + 1] > 1)
           THEN [v |-> Zero64,
                 P |-> [P EXCEPT !.err = FirstError(@, "Failed to read uvarint")]]
         ELSE [v |-> Or64(v, Shl64(P.data[P.pos + 1], shift, over)), P |-> NextByte(P)]
  ELSE UVarintLoop(NextByte(P), Or64(v, Shl64(P.data[P.pos + 1] % 128, shift, over)),
                   shift + 7, i + 1, over)

\* BinaryParser::ReadUVarint
BinaryParserReadUVarint(P, over) == UVarintLoop(P, Zero64, 0, 0, over)

\* u >> 1 alone
ShiftRightOnly(u) == [k \in 1..64 |-> IF k < 64 THEN u[k + 1] ELSE 0]

\* u >> 1, complemented when (u & 1) != 0
UnZigZag(u) ==
  [k \in 1..64 |-> IF u[1] = 1 THEN 1 - (IF k < 64 THEN u[k + 1] ELSE 0)
                   ELSE IF k < 64 THEN u[k + 1] ELSE 0]

\* BinaryParser::ReadVarint: the 64 bits of the int64_t
BinaryParserReadVarint(P, over) ==
  [v |-> UnZigZag(BinaryParserReadUVarint(P, over).v),
   P |-> BinaryParserReadUVarint(P, over).P]

\* BinaryParser::ReadBytes: ok is false when nullptr is returned, at is the
\* offset of the pointer returned
BinaryParserReadBytes(P, bytes) ==
  IF P.bytes_ < bytes
    THEN [ok |-> FALSE, at |-> 0,
          P |-> [P EXCEPT !.err = FirstError(@, "ReadBytes: failed to read")]]
  ELSE [ok |-> TRUE, at |-> P.pos,
        P |-> [P EXCEPT !.pos = @ + bytes, !.bytes_ = @ - bytes]]

\* BinaryParser::ReadString: std::string::assign throws std::length_error
\* for a count that is negative as an int, which is above max_size() as a
\* size_t
BinaryParserReadString(P, bytes) ==
  LET v == BinaryParserReadBytes(P, bytes)
  IN  IF ~v.ok THEN [s |-> <<>>, P |-> v.P]
      ELSE IF bytes < 0 THEN [s |-> <<>>, P |-> [v.P EXCEPT !.thrown = TRUE]]
      ELSE [s |-> Slice(P.data, v.at + 1, v.at + bytes), P |-> v.P]

\* BinaryParser::ReadLEUint32 and ReadLEUint64: the bytes of the value from
\* the low end
BinaryParserReadLEUint(P, width, msg) ==
  IF P.bytes_ < width
    THEN [v |-> [k \in 1..width |-> 0], P |-> [P EXCEPT !.err = FirstError(@, msg)]]
  ELSE [v |-> Slice(P.data, P.pos + 1, P.pos + width),
        P |-> [P EXCEPT !.pos = @ + width, !.bytes_ = @ - width]]

BinaryParserReadLEUint32(P) == BinaryParserReadLEUint(P, 4, "Failed to read uint32")

BinaryParserReadLEUint64(P) == BinaryParserReadLEUint(P, 8, "Failed to read uint64")

\* the conversion of a uint64_t to int: the low 32 bits read as two's
\* complement
RECURSIVE LowBits(_, _)
LowBits(u, n) == IF n = 0 THEN 0 ELSE u[1] + 2 * LowBits(Tail(u), n - 1)

Uint64ToInt(u) == LowBits(u, 31) - u[32] * 1073741824 - u[32] * 1073741824

(***************************************************************************)
(* The header block (header.cc).  A value that was read is the record      *)
(* [type, b, u, s, P]: the HeaderValue and the parser afterwards; u holds  *)
(* the 64 bits of the i of an INT and of the u of a UINT.  The types are   *)
(* INVALID = 0, BOOL = 1, INT = 2, UINT = 3, STRING = 4.                   *)
(***************************************************************************)
KeyTrailer == <<116, 114, 97, 105, 108, 101, 114>>

\* the HeaderValue ReadValue returns at its end: the type is INVALID unless
\* the reporter holds no error
HeaderValue(type, b, u, str, P) ==
  [type |-> IF P.err = "" THEN type ELSE 0, b |-> b, u |-> u, s |-> str, P |-> P]

\* the HeaderValue of an early return of ReadValue
InvalidValue(P) == [type |-> 0, b |-> FALSE, u |-> Zero64, s |-> <<>>, P |-> P]

\* ReadValue for a BOOL: b is what ReadBytes(1) returned
ReadBoolValue(b) ==
  IF ~b.ok THEN InvalidValue(b.P)
  ELSE HeaderValue(1, b.P.data[b.at + 1] # 0, Zero64, <<>>, b.P)

\* ReadValue for an INT or a UINT: r is what ReadVarint or ReadUVarint
\* returned
ReadIntValue(type, r) == HeaderValue(type, FALSE, r.v, <<>>, r.P)

\* ReadValue for a STRING: rn is the length that was read, str what
\* ReadString returned
ReadStringBody(str) == HeaderValue(4, FALSE, Zero64, str.s, str.P)

ReadStringValue(rn) ==
  IF rn.P.thrown THEN InvalidValue(rn.P)
  ELSE IF rn.type # 3
    THEN InvalidValue([rn.P EXCEPT !.err = FirstError(@, "Failed to read string length")])
  ELSE ReadStringBody(BinaryParserReadString(rn.P, Uint64ToInt(rn.u)))

\* ReadValue (header.cc); t is what ReadBytes(1) returned for the type
RECURSIVE ReadValue(_, _)
ReadTypedValue(t, over) ==
  IF ~t.ok THEN InvalidValue(t.P)
  ELSE IF t.P.data[t.at + 1] = 1 THEN ReadBoolValue(BinaryParserReadBytes(t.P, 1))
  ELSE IF t.P.data[t.at + 1] = 2 THEN ReadIntValue(2, BinaryParserReadVarint(t.P, over))
  ELSE IF t.P.data[t.at + 1] = 3 THEN ReadIntValue(3, BinaryParserReadUVarint(t.P, over))
  ELSE IF t.P.data[t.at + 1] = 4 THEN ReadStringValue(ReadValue(t.P, over))
  ELSE InvalidValue([t.P EXCEPT !.err = FirstError(@, "Invalid value type")])

ReadValue(P, over) == ReadTypedValue(BinaryParserReadBytes(P, 1), over)

\* a HeaderEntry
HeaderEntry(rkey, value) ==
  [key |-> rkey.s,
   value |-> [type |-> value.type, b |-> value.b, u |-> value.u, s |-> value.s]]

\* the loop of DecodeHeader: i entries were read, n is static_cast<int>(rn.u)
RECURSIVE DecodeEntries(_, _, _, _, _)
DecodeEntry(n, i, entries, rkey, value, over) ==
  IF value.P.err # "" \/ value.P.thrown THEN [entries |-> entries, P |-> value.P]
  ELSE DecodeEntries(value.P, n, i + 1, Append(entries, HeaderEntry(rkey, value)), over)

DecodeKey(n, i, entries, rkey, over) ==
  IF rkey.P.thrown THEN [entries |-> entries, P |-> rkey.P]
  ELSE IF rkey.type # 4
    THEN [entries |-> entries,
          P |-> [rkey.P EXCEPT !.err = FirstError(@, "Failed to read header key")]]
  ELSE DecodeEntry(n, i, entries, rkey, ReadValue(rkey.P, over), over)

DecodeEntries(P, n, i, entries, over) ==
  IF i >= n THEN [entries |-> entries, P |-> P]
  ELSE DecodeKey(n, i, entries, ReadValue(P, over), over)

\* DecodeHeader after the count of entries was read
DecodeCounted(rn, over) ==
  IF rn.P.thrown THEN [entries |-> <<>>, P |-> rn.P]
  ELSE IF rn.type # 3
    THEN [entries |-> <<>>,
          P |-> [rn.P EXCEPT !.err = FirstError(@, "Failed to read # header entries")]]
  ELSE DecodeEntries(rn.P, Uint64ToInt(rn.u), 0, <<>>, over)

\* internal::DecodeHeader: the entries, and the parser at the return, whose
\* err is what the ErrorReporter holds
DecodeParsed(P, over) == DecodeCounted(ReadValue(P, over), over)

DecodeHeader(data, err, over) ==
  [entries |-> DecodeParsed(BinaryParser(data, Len(data), err), over).entries,
   err |-> DecodeParsed(BinaryParser(data, Len(data), err), over).P.err,
   thrown |-> DecodeParsed(BinaryParser(data, Len(data), err), over).P.thrown]

\* internal::HasTrailer: the value of the first "trailer" entry
RECURSIVE HasTrailer(_)
HasTrailer(header) ==
  IF header = <<>> THEN [err |-> "", v |-> FALSE]
  ELSE IF Head(header).key = KeyTrailer
    THEN IF Head(header).value.type # 1
           THEN [err |-> "Wrong trailer value type", v |-> FALSE]
         ELSE [err |-> "", v |-> Head(header).value.b]
  ELSE HasTrailer(Tail(header))

\* a header entry with a BOOL value, and a header item, as a v2 writer
\* encodes them
BoolEntry(key, b) ==
  <<4, 3>> \o UVarint(Len(key)) \o key \o <<1, IF b THEN 1 ELSE 0>>

RECURSIVE Concat(_)
Concat(seqs) == IF seqs = <<>> THEN <<>> ELSE Head(seqs) \o Concat(Tail(seqs))

EncodeHeader(entries) == <<3>> \o UVarint(Len(entries)) \o Concat(entries)

VARIABLES opts, wr, gh, last, ctl, rd, rh, sets, fl, reg, ck, flip, v2, bp

\* the writer, the legacy reader and the error cells
legacy == <<opts, wr, gh, last, ctl, rd, rh, sets>>

\* the flate transformers, the transformer registry, the chunk file with
\* its ChunkReader, the bit of a file that was flipped, the v2 file with
\* its reader
ext == <<fl, reg, ck, flip, v2, bp>>

vars == <<opts, wr, gh, last, ctl, rd, rh, sets, fl, reg, ck, flip, v2, bp>>

\* recordio.h: WriterDefaultMaxPackedItems, WriterDefaultMaxPackedBytes
WriterDefaultMaxPackedItems == 16384
WriterDefaultMaxPackedBytes == 16777216

Transformers == {"none", "flate"}
PackedItemsOpts == 0..2
PackedBytesOpts == {1, 3}

\* WriterOpts (recordio.h); an unpacked writer ignores the two bounds
OptsSet ==
  [packed : {TRUE}, transformer : Transformers, indexer : BOOLEAN,
   max_packed_items : PackedItemsOpts, max_packed_bytes : PackedBytesOpts]
  \cup
  [packed : {FALSE}, transformer : Transformers, indexer : BOOLEAN,
   max_packed_items : {WriterDefaultMaxPackedItems},
   max_packed_bytes : {WriterDefaultMaxPackedBytes}]

\* BaseWriter / PackedWriterImpl constructors on an empty, good stream
NewWriter ==
  [out |-> <<>>, good |-> TRUE, err_ |-> "", items_count_ |-> 0, sizes_ |-> <<>>,
   buffered_items_ |-> <<>>, buffered_gib |-> 0, block_offsets_ |-> <<>>]

NoCall ==
  [op |-> "none", ret |-> TRUE, item |-> Item(<<>>, 0), written |-> FALSE,
   indexed |-> FALSE, flushed |-> FALSE, start |-> -1, env |-> NoEnv,
   before |-> NewWriter]

\* the legacy reader constructors on a source positioned at offset off;
\* failed and eof are the stream's failbit and eofbit, errno the message of
\* the last failed system call
NewReader(off) ==
  [open |-> TRUE, start |-> off, pos |-> off, failed |-> FALSE, eof |-> FALSE,
   errno |-> "", err_ |-> "", buf_ |-> <<>>, block_ |-> <<>>, items_ |-> <<>>,
   items_start_ |-> 0, cur_item_ |-> 0, capacity |-> 0]

\* strerror(errno) after an open(2) that failed
OpenErrors == {"No such file or directory", "Permission denied"}

\* the reader built on a stream whose open failed: the failbit is set, the
\* eofbit is not
NewReaderUnopened(msg) == [NewReader(0) EXCEPT !.failed = TRUE, !.errno = msg]

NoReader == [NewReader(0) EXCEPT !.open = FALSE]

NoHistory ==
  [yielded |-> <<>>, ended |-> FALSE, late |-> 0, seeks |-> 0,
   last |-> [op |-> "none", ret |-> TRUE, before |-> NoReader, ended_before |-> FALSE]]

NoSets == [reporter |-> <<>>, writer |-> <<>>]

\* a FlateTransformer and an UnflateTransformer before their first call
NoFlate ==
  [calls |-> 0, capacity |-> 0, B |-> <<>>, in_iov |-> <<>>,
   enc |-> [err |-> "", out |-> <<>>], fed |-> <<>>,
   dec |-> [err |-> "", out |-> <<>>]]

Threads == {1, 2}

\* a thread that is in no registry call
IdleThread ==
  [pc |-> "idle", op |-> "none", names |-> <<>>, name |-> <<>>, args |-> <<>>,
   found |-> FALSE, visible |-> {}, err |-> "", tr |-> "null", ops |-> 0]

\* the entry stored by the call number seq of thread by
Entry(by, seq) == [by |-> by, seq |-> seq]

\* the registry after static initialisation: InitModule has run and
\* FlateInit has registered "flate"
StartRegistry ==
  [mu |-> 0, factories |-> (<<"flate">> :> Entry(0, 0)), aborted |-> FALSE,
   finished |-> {<<"flate">>}, checks |-> <<(<<"flate">>)>>,
   inserts |-> <<(<<"flate">>)>>, th |-> [t \in Threads |-> IdleThread]]

\* ChunkReader::ChunkReader on a source at offset 0; seen and reads are the
\* chunks and the Read calls of the call under way.  free_chunks_ holds,
\* for each buffer of the pool, the number of the chunk it holds (0: none);
\* spans names the buffer that each slice of iov_ points into, and buf the
\* buffer of the last ReadChunk
NewChunkReader ==
  [pos |-> 0, err_ |-> "", magic_ |-> MagicInvalid, iov_ |-> <<>>,
   next_free_chunk_ |-> 0, seen |-> <<>>, reads |-> 0,
   free_chunks_ |-> <<>>, spans |-> <<>>, buf |-> 0]

\* no long chunk file yet
NoLongFile ==
  [file |-> [data |-> 0, trailer |-> 0], stored |-> FALSE, r |-> [pos |-> 0, err_ |-> ""],
   ops |-> 0,
   last |-> [op |-> "none", ret |-> TRUE, before |-> [pos |-> 0, err_ |-> ""],
             rerr |-> FALSE, sought |-> FALSE,
             block |-> [magic |-> MagicInvalid, chunks |-> 0]]]

\* no chunk file yet
NoChunks ==
  [file |-> [chunks |-> <<>>, tail |-> 0], open |-> FALSE, r |-> NewChunkReader,
   ops |-> 0, faults |-> 0,
   last |-> [op |-> "none", ret |-> TRUE, before |-> NewChunkReader, fault |-> 0],
   long |-> NoLongFile]

(***************************************************************************)
(* The v2 reader.  It is built on the ChunkReader: a block is the payload  *)
(* of a chunk sequence, and holds a packed-item list that is parsed as     *)
(* PackedReaderImpl::ReadBlock parses one.  The reader is the record       *)
(*   cr          its ChunkReader, whose err_ is the reader's error         *)
(*   header      the entries of the header block                           *)
(*   trailer     the bytes of the trailer item, copied out                 *)
(*   resume_off  the offset of the source after the header block           *)
(*   items_      the items of the block being iterated                     *)
(*   next        the index in items_ of the item the next Scan yields      *)
(*   armed       the index the next block read starts from (set by Seek)   *)
(***************************************************************************)
NewV2Reader ==
  [cr |-> NewChunkReader, header |-> <<>>, trailer |-> <<>>, resume_off |-> 0,
   items_ |-> <<>>, next |-> 0, armed |-> 0]

\* the items of a parsed block
ItemsOf(r) ==
  [k \in 1..Len(r.items_) |->
     Slice(r.block_, r.items_start_ + r.items_[k].offset + 1,
           r.items_start_ + r.items_[k].offset + r.items_[k].size)]

\* a block that was read: the packed-item list p parsed from its payload
BlockRead(s, p) ==
  [ok |-> p.ok, cr |-> [s.r EXCEPT !.err_ = p.r.err_], magic |-> s.r.magic_,
   items |-> IF p.ok THEN ItemsOf(p.r) ELSE <<>>]

\* read the next block through the ChunkReader and parse its item list
V2Block(s) ==
  IF ~s.ok THEN [ok |-> FALSE, cr |-> s.r, magic |-> s.r.magic_, items |-> <<>>]
  ELSE BlockRead(s, ParseBlock([r |-> [NewReader(0) EXCEPT
                                         !.buf_ = IoVecFlatten(s.r.iov_),
                                         !.err_ = s.r.err_],
                                ok |-> TRUE], "none"))

V2ScanBlock(cr, file) == V2Block(ChunkScan(cr, file, 0))

\* opening, last step: the source goes back to the first data block
V2Resume(R) == [R EXCEPT !.cr = ChunkSeek(R.cr, R.resume_off)]

\* opening, the trailer block b read after SeekLastBlock
V2TakeTrailer(R, b) ==
  IF ~b.ok THEN [R EXCEPT !.cr = ErrorReporterSet(b.cr, "Failed to read the trailer block")]
  ELSE IF b.magic # MagicTrailer \/ Len(b.items) # 1
    THEN [R EXCEPT !.cr = ErrorReporterSet(b.cr, "Wrong trailer block")]
  ELSE V2Resume([R EXCEPT !.cr = b.cr, !.trailer = b.items[1]])

\* opening, after the header item was decoded to h
V2AfterHeader(R, file, h, t) ==
  IF h.err # "" THEN [R EXCEPT !.cr = ErrorReporterSet(R.cr, h.err)]
  ELSE IF t.err # "" THEN [R EXCEPT !.cr = ErrorReporterSet(R.cr, t.err),
                                    !.header = h.entries]
  ELSE IF t.v
    THEN V2TakeTrailer([R EXCEPT !.header = h.entries],
                       V2ScanBlock(SeekLastBlock(R.cr, file, 0), file))
  ELSE V2Resume([R EXCEPT !.header = h.entries])

\* opening, the first block b of the file
V2TakeHeader(R, file, b, over) ==
  IF ~b.ok THEN [R EXCEPT !.cr = b.cr]
  ELSE IF b.magic # MagicHeader \/ Len(b.items) # 1
    THEN [R EXCEPT !.cr = ErrorReporterSet(b.cr, "Wrong header block")]
  ELSE V2AfterHeader([R EXCEPT !.cr = b.cr, !.resume_off = b.cr.pos], file,
                     DecodeHeader(b.items[1], b.cr.err_, over),
                     HasTrailer(DecodeHeader(b.items[1], b.cr.err_, over).entries))

\* the v2 reader on a source at offset 0
V2Open(file, over) ==
  V2TakeHeader(NewV2Reader, file, V2ScanBlock(NewChunkReader, file), over)

\* Scan when the items of the block are used up: the next block b
V2NextBlock(R, b) ==
  IF ~b.ok \/ b.magic = MagicTrailer
    THEN [ok |-> FALSE, R |-> [R EXCEPT !.cr = b.cr, !.items_ = <<>>, !.next = 0,
                                        !.armed = 0]]
  ELSE IF b.magic # MagicPacked \/ R.armed >= Len(b.items)
    THEN [ok |-> FALSE,
          R |-> [R EXCEPT !.cr = ErrorReporterSet(b.cr, "Wrong block"),
                          !.items_ = <<>>, !.next = 0, !.armed = 0]]
  ELSE [ok |-> TRUE, R |-> [R EXCEPT !.cr = b.cr, !.items_ = b.items,
                                     !.next = R.armed + 1, !.armed = 0]]

\* Reader::Scan of the v2 reader
V2Scan(R, file) ==
  IF R.next < Len(R.items_) THEN [ok |-> TRUE, R |-> [R EXCEPT !.next = @ + 1]]
  ELSE V2NextBlock(R, V2ScanBlock(R.cr, file))

\* Reader::Get of the v2 reader after a Scan that returned true
V2Get(R) == R.items_[R.next]

\* Reader::Seek of the v2 reader: the source moves to the block, the next
\* Scan reads the block and starts from the item
V2Seek(R, loc) ==
  [R EXCEPT !.cr = ChunkSeek(R.cr, loc.block), !.items_ = <<>>, !.next = 0,
            !.armed = loc.item]

\* a location no call was given
NoLoc == [block |-> -1, item |-> -1]

\* no v2 file yet; blocks lists the blocks laid down, each with its offset,
\* magic and items
NoV2 ==
  [file |-> [chunks |-> <<>>, tail |-> 0], blocks |-> <<>>, open |-> FALSE,
   r |-> NewV2Reader, ops |-> 0, ended |-> FALSE,
   last |-> [op |-> "none", ret |-> TRUE, got |-> <<>>, after |-> NoLoc,
             ended_before |-> FALSE]]

\* no BinaryParser yet; last is the last call on it: the count it was given,
\* the parser before the call and what the call returned
NoParser ==
  [P |-> BinaryParser(<<>>, 0, ""), made |-> FALSE, ops |-> 0,
   last |-> [op |-> "none", bytes |-> 0, before |-> BinaryParser(<<>>, 0, ""),
             v |-> <<>>]]

\* no bit of a file was flipped
NoFlip == [done |-> FALSE, region |-> "none", block |-> 0, at |-> 0, bit |-> 0]

InitW(fault_budget) ==
  /\ opts \in OptsSet
  /\ wr = NewWriter
  /\ gh = [accepted |-> <<>>, pending |-> <<>>, blocks |-> <<>>]
  /\ last = NoCall
  /\ ctl = [writes |-> 0, closes |-> 0, faults |-> fault_budget]
  /\ rd = NoReader
  /\ rh = NoHistory
  /\ sets = NoSets
  /\ fl = NoFlate
  /\ reg = StartRegistry
  /\ ck = NoChunks
  /\ flip = NoFlip
  /\ v2 = NoV2
  /\ bp = NoParser

\* a default-constructed WriterOpts
DefaultWriterOpts ==
  [packed |-> FALSE, transformer |-> "none", indexer |-> FALSE,
   max_packed_items |-> WriterDefaultMaxPackedItems,
   max_packed_bytes |-> WriterDefaultMaxPackedBytes]

\* no writer in use: the other components are explored on their own
InitAlone == InitW(0) /\ opts = DefaultWriterOpts

\* the history after a call with result r: in packed mode the block written
\* holds the pending items and a successful Flush empties the buffer
GhostAfter(r, item, is_write) ==
  LET blk(items) == [start |-> r.start, size |-> Len(r.w.out) - Len(wr.out) - 20,
                     items |-> items]
      emitted == IF ~r.written THEN gh.blocks
                 ELSE Append(gh.blocks, blk(IF opts.packed THEN gh.pending ELSE <<item>>))
      kept == IF r.flushed /\ r.ret THEN <<>> ELSE gh.pending
  IN  [accepted |-> IF is_write /\ r.ret THEN Append(gh.accepted, item) ELSE gh.accepted,
       pending |-> IF is_write /\ r.ret /\ opts.packed THEN Append(kept, item) ELSE kept,
       blocks |-> emitted]

\* what is remembered of a call: before is the writer as the call found it
CallRecord(op, r, item, env) ==
  [op |-> op, ret |-> r.ret, item |-> item, written |-> r.written,
   indexed |-> r.indexed, flushed |-> r.flushed, start |-> r.start, env |-> env,
   before |-> wr]

\* an environment is explored when it is fault-free, or when a fault is left
\* to inject and the fault changes what the call does
EnvAllowed(env, r, r0) == env = NoEnv \/ (ctl.faults > 0 /\ r # r0)

FaultsAfter(env) == IF env = NoEnv THEN ctl.faults ELSE ctl.faults - 1

\* a writer holding 2^30 bytes or more is not followed further
Followed == wr.buffered_gib = 0

\* w->Write(item); "After Close(), callers must not Write() anymore"
\* (recordio.h), so no Write follows a Close
Write(item, env) ==
  LET r == WriterWrite(wr, opts, item, env)
  IN  /\ ctl.writes < MaxWrites
      /\ ctl.closes = 0
      /\ ~rd.open
      /\ Followed
      /\ item.gib = 0 \/ opts.packed
      /\ EnvAllowed(env, r, WriterWrite(wr, opts, item, NoEnv))
      /\ wr' = r.w
      /\ gh' = GhostAfter(r, item, TRUE)
      /\ last' = CallRecord("Write", r, item, env)
      /\ ctl' = [ctl EXCEPT !.writes = @ + 1, !.faults = FaultsAfter(env)]
      /\ UNCHANGED <<opts, rd, rh, sets>>
      /\ UNCHANGED ext

\* w->Close()
Close(env) ==
  LET r == WriterClose(wr, opts, env)
  IN  /\ ctl.closes < MaxCloses
      /\ ~rd.open
      /\ Followed
      /\ EnvAllowed(env, r, WriterClose(wr, opts, NoEnv))
      /\ wr' = r.w
      /\ gh' = GhostAfter(r, Item(<<>>, 0), FALSE)
      /\ last' = CallRecord("Close", r, Item(<<>>, 0), env)
      /\ ctl' = [ctl EXCEPT !.closes = @ + 1, !.faults = FaultsAfter(env)]
      /\ UNCHANGED <<opts, rd, rh, sets>>
      /\ UNCHANGED ext

NextW ==
  \/ \E item \in Items, env \in Envs : Write(item, env)
  \/ \E env \in Envs : Close(env)

InitWriter == InitW(MaxFaults)

SpecW == InitWriter /\ [][NextW]_vars

(***************************************************************************)
(* Reading back.  The file is complete when the reader is opened: the      *)
(* writer was closed and makes no further call.  The reader is the legacy  *)
(* reader for the writer's options, on a source positioned at the start of *)
(* the file or at an offset the indexer received.                          *)
(***************************************************************************)
IndexedOffsets == {wr.block_offsets_[k] : k \in 1..Len(wr.block_offsets_)}

OpenReader(off) ==
  /\ ~rd.open
  /\ ctl.closes >= 1
  /\ rd' = NewReader(off)
  /\ UNCHANGED <<opts, wr, gh, last, ctl, rh, sets>>
  /\ UNCHANGED ext

\* r->Scan(), followed by r->Get() when it returned true
Scan ==
  LET s == ReaderScan(rd, wr.out, opts)
  IN  /\ rd.open
      /\ rh.late < MaxLateScans
      /\ rd' = s.r
      /\ \E g \in (IF s.ok THEN Get(s.r, opts) ELSE {<<>>}) :
           rh' = [rh EXCEPT
                    !.yielded = IF s.ok THEN Append(@, g) ELSE @,
                    !.ended = @ \/ ~s.ok,
                    !.late = IF rh.ended THEN @ + 1 ELSE @,
                    !.last = [op |-> "Scan", ret |-> s.ok, before |-> rd,
                              ended_before |-> rh.ended]]
      /\ UNCHANGED <<opts, wr, gh, last, ctl, sets>>
      /\ UNCHANGED ext

\* r->Seek(loc); the location is not looked at
Seek ==
  /\ rd.open
  /\ rh.seeks < MaxSeeks
  /\ rd' = ReaderSeek(rd)
  /\ rh' = [rh EXCEPT !.seeks = @ + 1,
                      !.last = [op |-> "Seek", ret |-> TRUE, before |-> rd,
                                ended_before |-> rh.ended]]
  /\ UNCHANGED <<opts, wr, gh, last, ctl, sets>>
  /\ UNCHANGED ext

Next ==
  \/ NextW
  \/ \E off \in {0} \cup IndexedOffsets : OpenReader(off)
  \/ Scan
  \/ Seek

\* no fault is injected while the file is written
InitReader == InitW(0)

Spec == InitReader /\ [][Next]_vars

(***************************************************************************)
(* A reader for a path that cannot be opened.  No file exists; the reader  *)
(* kind follows the path suffix, which the options stand for.              *)
(***************************************************************************)
OpenMissing(msg) ==
  /\ ~rd.open
  /\ rd' = NewReaderUnopened(msg)
  /\ UNCHANGED <<opts, wr, gh, last, ctl, rh, sets>>
  /\ UNCHANGED ext

NextMissing ==
  \/ \E msg \in OpenErrors : OpenMissing(msg)
  \/ Scan
  \/ Seek

SpecMissing == InitReader /\ [][NextMissing]_vars

(***************************************************************************)
(* The legacy reader on a stored file that need not come from the writer:  *)
(* a well-formed block or nothing, followed by a tail that is a block, a   *)
(* cut block or a block with a header or a packed list of any content.     *)
(***************************************************************************)
ReaderMagic == IF opts.packed THEN MagicPacked ELSE MagicUnpacked

\* a block header for the eight size bytes size8, with its checksum
StoredHeader(size8) == ReaderMagic \o size8 \o Crc32(size8)

StoredBlock(payload) == StoredHeader(LEUint64(Len(payload))) \o payload

\* the payload of a packed block with the item count and sizes given as
\* bytes, with its checksum
StoredList(varints, bytes) == Crc32(varints) \o varints \o bytes

\* the bytes as the writer's transformer stores them
Stored(bytes) == IF opts.transformer = "flate" THEN Deflate(bytes) ELSE bytes

\* the payload of a block of the one record <<7>>
GoodPayload == IF opts.packed THEN StoredList(<<1, 1>>, Stored(<<7>>)) ELSE Stored(<<7>>)

\* the eight size bytes of 2^32
Size2To32 == <<0, 0, 0, 0, 1, 0, 0, 0>>

\* tails about the header and the body of a block
HeaderTails ==
  { <<>>, StoredBlock(GoodPayload), StoredBlock(<<>>),
    StoredHeader(LEUint64(MaxReadRecordSize)) \o <<1, 2>>,
    StoredHeader(LEUint64(MaxReadRecordSize + 1)),
    StoredHeader(Size2To32),
    StoredHeader(LEUint64(3)) \o <<1, 2>>,
    StoredHeader(LEUint64(1)) }
  \cup { Slice(StoredBlock(GoodPayload), 1, k) : k \in {1, 8, HeaderSize - 1} }

\* the eight size bytes of the smallest block of 2^32 - 1 items: 4 checksum
\* bytes, 5 bytes of item count and 2^32 - 1 sizes of one byte
FullBlockSize == <<8, 0, 0, 0, 1, 0, 0, 0>>

\* the varints of 2^32 - 1 and of 2^32 + 1
VarintUint32Max == <<255, 255, 255, 255, 15>>
VarintOver32 == <<129, 128, 128, 128, 16>>

\* tails about the item count and the item sizes of a packed block: the
\* header of a block of 2^32 - 1 items; blocks with the item counts 0 and
\* 2^32 - 1; blocks whose items region is as long as, longer than and
\* shorter than the sizes say; blocks with a size of 2^32 + 1 and of
\* 2^32 - 1
PackedTails ==
  IF ~opts.packed THEN {}
  ELSE { StoredHeader(FullBlockSize),
         StoredBlock(StoredList(<<0>>, <<>>)),
         StoredBlock(StoredList(VarintUint32Max, <<0, 0>>)),
         StoredBlock(StoredList(<<2, 1, 1>>, Stored(<<7, 8>>))),
         StoredBlock(StoredList(<<1, 1>>, Stored(<<7, 8>>))),
         StoredBlock(StoredList(<<1, 2>>, Stored(<<7>>))),
         StoredBlock(StoredList(<<1>> \o VarintOver32, Stored(<<7>>))),
         StoredBlock(StoredList(<<2, 3>> \o VarintUint32Max, Stored(<<7, 8>>))) }

StoredTails == HeaderTails \cup PackedTails

StoredFiles == {head \o tail : head \in {<<>>, StoredBlock(GoodPayload)}, tail \in StoredTails}

\* the file is stored and a reader of the kind of opts is opened on it
OpenStored(file) ==
  /\ ~rd.open
  /\ wr.out = <<>>
  /\ wr' = [wr EXCEPT !.out = file]
  /\ rd' = NewReader(0)
  /\ UNCHANGED <<opts, gh, last, ctl, rh, sets>>
  /\ UNCHANGED ext

NextStored ==
  \/ \E file \in StoredFiles : OpenStored(file)
  \/ Scan

SpecStored == InitReader /\ [][NextStored]_vars

(***************************************************************************)
(* The two error cells, driven by a caller: ErrorReporter::Set on the      *)
(* reader's cell and BaseWriter::SetError on the writer's.                 *)
(***************************************************************************)
Messages == {"", "wrong crc", "Seek not supported"}

Set(err) ==
  /\ Len(sets.reporter) + Len(sets.writer) < MaxSets
  /\ rd' = ErrorReporterSet(rd, err)
  /\ sets' = [sets EXCEPT !.reporter = Append(@, err)]
  /\ UNCHANGED <<opts, wr, gh, last, ctl, rh>>
  /\ UNCHANGED ext

SetErrorCall(err) ==
  /\ Len(sets.reporter) + Len(sets.writer) < MaxSets
  /\ wr' = SetError(wr, err)
  /\ sets' = [sets EXCEPT !.writer = Append(@, err)]
  /\ UNCHANGED <<opts, gh, last, ctl, rd, rh>>
  /\ UNCHANGED ext

NextErr == \E err \in Messages : Set(err) \/ SetErrorCall(err)

SpecErr == InitWriter /\ [][NextErr]_vars

(***************************************************************************)
(* The flate transformers on their own: a buffer is cut into slices,       *)
(* encoded by FlateTransformer() and the encoder's output is decoded by    *)
(* UnflateTransformer(), as DoCompressTest does.                           *)
(***************************************************************************)
FlateBytes == {0, 7}

FlateBuffers == UNION {[1..n -> FlateBytes] : n \in 0..MaxFlateLen}

\* the places where a buffer of n bytes is cut: none, one or two
Cuts(n) ==
  {<<>>} \cup {<<c>> : c \in 0..n}
         \cup {<<c, d>> : c \in 0..n, d \in 0..n}

\* the IoVec of DoCompressTest: consecutive slices of the buffer
SliceAt(B, cuts) ==
  IF Len(cuts) = 0 THEN <<B>>
  ELSE IF Len(cuts) = 1
    THEN <<SubSeq(B, 1, cuts[1]), SubSeq(B, cuts[1] + 1, Len(B))>>
  ELSE <<SubSeq(B, 1, cuts[1]), SubSeq(B, cuts[1] + 1, cuts[2]),
         SubSeq(B, cuts[2] + 1, Len(B))>>

\* flate->Transform(iov, &flate_iov), then unflate->Transform(flate_iov,
\* &unflate_iov) when the encoder reported no error
FlateCalls(B, in_iov, enc) ==
  LET dec == IF enc.err = "" THEN UnflateTransform(enc.out, fl.capacity)
             ELSE [err |-> "", out |-> <<>>, size |-> fl.capacity]
  IN  fl' = [calls |-> fl.calls + 1, capacity |-> dec.size, B |-> B,
             in_iov |-> in_iov, enc |-> enc,
             fed |-> IF enc.err = "" THEN enc.out ELSE <<>>,
             dec |-> [err |-> dec.err, out |-> dec.out]]

FlateRoundTrip(B, cuts, first_empty_fails) ==
  /\ fl.calls < MaxFlateCalls
  /\ \A k \in 1..(Len(cuts) - 1) : cuts[k] <= cuts[k + 1]
  /\ FlateCalls(B, SliceAt(B, cuts), FlateTransform(SliceAt(B, cuts), first_empty_fails))
  /\ UNCHANGED <<legacy, reg, ck, flip, v2, bp>>

NextFlate ==
  \E B \in FlateBuffers : \E cuts \in Cuts(Len(B)) : \E f \in BOOLEAN :
    FlateRoundTrip(B, cuts, f)

SpecFlate == InitAlone /\ [][NextFlate]_vars

(***************************************************************************)
(* The UnflateTransformer on streams that need not be what the encoder     *)
(* gave: the encoding of a buffer, whole or cut short, or followed by      *)
(* bytes that do not belong to it, in one slice or two.                    *)
(***************************************************************************)
MaxUnflateCalls == 2

UnflateBuffers == {Copies(n, 7) : n \in 0..MaxFlateLen} \cup {<<0, 7>>, <<7, 7, 0>>}

\* the bytes that follow a stream
Junk == {<<>>, <<9>>}

\* the places where the input is cut: none or one
Cuts1(n) == {<<>>} \cup {<<c>> : c \in 0..n}

\* unflate->Transform(fed, &out): B is the buffer a FlateTransformer had
\* encoded to enc.out
UnflateFed(B, fed, dec) ==
  fl' = [calls |-> fl.calls + 1, capacity |-> dec.size, B |-> B, in_iov |-> <<B>>,
         enc |-> [err |-> "", out |-> <<Deflate(B)>>], fed |-> fed,
         dec |-> [err |-> dec.err, out |-> dec.out]]

UnflateCall(B, keep, junk, cuts) ==
  /\ fl.calls < MaxUnflateCalls
  /\ junk # <<>> => keep = Len(Deflate(B))
  /\ UnflateFed(B, SliceAt(SubSeq(Deflate(B), 1, keep) \o junk, cuts),
                UnflateTransform(SliceAt(SubSeq(Deflate(B), 1, keep) \o junk, cuts),
                                 fl.capacity))
  /\ UNCHANGED <<legacy, reg, ck, flip, v2, bp>>

NextUnflate ==
  \E B \in UnflateBuffers : \E keep \in 0..Len(Deflate(B)) : \E junk \in Junk :
    \E cuts \in Cuts1(keep + Len(junk)) : UnflateCall(B, keep, junk, cuts)

SpecUnflate == InitAlone /\ [][NextUnflate]_vars

(***************************************************************************)
(* The registry used by threads.  A call is a sequence of steps; the       *)
(* mutex g_registry->mu is held from Lock to Return.                       *)
(***************************************************************************)
RegNames == {<<"flate">>, <<"zstd">>}

\* the names of the transformers a thread may look up by name alone
BareConfigs == RegNames

LookupKinds == {"GetTransformer", "GetUntransformer"}

CanCall(t) ==
  /\ ~reg.aborted
  /\ reg.th[t].pc = "idle"
  /\ reg.th[t].ops < MaxRegOps

\* RegisterTransformer(name, ...) is entered
RegisterCall(t, name) ==
  /\ CanCall(t)
  /\ reg' = [reg EXCEPT !.th[t] =
               [IdleThread EXCEPT !.pc = "lock", !.op = "RegisterTransformer",
                                  !.name = name, !.visible = reg.finished,
                                  !.ops = reg.th[t].ops]]
  /\ UNCHANGED <<legacy, fl, ck, flip, v2, bp>>

\* GetTransformer / GetUntransformer up to the lock of FindEntry
LookupEnter(t, kind, names, p) ==
  reg' = [reg EXCEPT !.th[t] =
    IF Len(names) = 0
      THEN [IdleThread EXCEPT !.op = kind, !.names = names, !.tr = "Id",
                              !.ops = reg.th[t].ops + 1]
    ELSE IF Len(names) > 1
      THEN [IdleThread EXCEPT !.op = kind, !.names = names,
                              !.err = "Multiple transformers not supported yet",
                              !.ops = reg.th[t].ops + 1]
    ELSE IF p.err # ""
      THEN [IdleThread EXCEPT !.op = kind, !.names = names, !.err = p.err,
                              !.ops = reg.th[t].ops + 1]
    ELSE [IdleThread EXCEPT !.pc = "lock", !.op = kind, !.names = names,
                            !.name = p.name, !.args = p.args,
                            !.visible = reg.finished, !.ops = reg.th[t].ops]]

LookupCall(t, kind, names) ==
  /\ CanCall(t)
  /\ LookupEnter(t, kind, names,
                 IF Len(names) = 1 THEN FindEntryName(names[1])
                 ELSE [err |-> "", name |-> <<>>, args |-> <<>>])
  /\ UNCHANGED <<legacy, fl, ck, flip, v2, bp>>

\* std::lock_guard<std::mutex> l(g_registry->mu)
Lock(t) ==
  /\ ~reg.aborted
  /\ reg.th[t].pc = "lock"
  /\ reg.mu = 0
  /\ reg' = [reg EXCEPT !.mu = t, !.th[t].pc = "find"]
  /\ UNCHANGED <<legacy, fl, ck, flip, v2, bp>>

\* the find of a registry whose mutex is released before the insert
FindStepUnlocking(t) ==
  [reg EXCEPT !.mu = 0,
              !.th[t].found = reg.th[t].name \in DOMAIN reg.factories,
              !.th[t].pc = IF reg.th[t].op = "RegisterTransformer"
                             THEN "insert" ELSE "return"]

\* g_registry->factories.find(name)
FindStep(t) ==
  [reg EXCEPT !.th[t].found = reg.th[t].name \in DOMAIN reg.factories,
              !.th[t].pc = IF reg.th[t].op = "RegisterTransformer"
                             THEN "insert" ELSE "return"]

Find(t) ==
  /\ ~reg.aborted
  /\ reg.th[t].pc = "find"
  /\ reg' = FindStep(t)
  /\ UNCHANGED <<legacy, fl, ck, flip, v2, bp>>

\* RegisterTransformer after the find: abort(), or the entry is stored
Insert(t) ==
  /\ ~reg.aborted
  /\ reg.th[t].pc = "insert"
  /\ reg' = IF reg.th[t].found
              THEN [reg EXCEPT !.aborted = TRUE, !.th[t].pc = "abort",
                               !.checks = Append(@, reg.th[t].name)]
            ELSE [reg EXCEPT
                    !.factories = [n \in DOMAIN @ \cup {reg.th[t].name} |->
                                     IF n = reg.th[t].name
                                       THEN Entry(t, reg.th[t].ops + 1) ELSE @[n]],
                    !.checks = Append(@, reg.th[t].name),
                    !.inserts = Append(@, reg.th[t].name),
                    !.th[t].pc = "return"]
  /\ UNCHANGED <<legacy, fl, ck, flip, v2, bp>>

\* the call returns and the lock_guard releases the mutex; a lookup calls
\* the factory of the entry found
Return(t) ==
  /\ ~reg.aborted
  /\ reg.th[t].pc = "return"
  /\ reg' = IF reg.th[t].op = "RegisterTransformer"
              THEN [reg EXCEPT !.mu = 0, !.th[t].pc = "idle", !.th[t].ops = @ + 1,
                               !.finished = @ \cup {reg.th[t].name}]
            ELSE [reg EXCEPT !.mu = 0, !.th[t].pc = "idle", !.th[t].ops = @ + 1,
                             !.th[t].err = IF reg.th[t].found THEN ""
                                           ELSE "Transformer not found",
                             !.th[t].tr = IF reg.th[t].found THEN reg.th[t].op
                                          ELSE "null"]
  /\ UNCHANGED <<legacy, fl, ck, flip, v2, bp>>

RegStep(t) == Lock(t) \/ Find(t) \/ Insert(t) \/ Return(t)

\* one thread, any config string
NextReg ==
  \/ \E name \in RegNames : RegisterCall(1, name)
  \/ \E kind \in LookupKinds : \E c \in ConfigStrings : LookupCall(1, kind, <<c>>)
  \/ \E kind \in LookupKinds : \E c \in BareConfigs :
       LookupCall(1, kind, <<>>) \/ LookupCall(1, kind, <<c, c>>)
  \/ RegStep(1)

SpecReg == InitAlone /\ [][NextReg]_vars

\* the threads of a process, looking transformers up by name
NextRegMT ==
  \E t \in Threads :
    \/ \E name \in RegNames : RegisterCall(t, name)
    \/ \E kind \in LookupKinds : \E c \in BareConfigs : LookupCall(t, kind, <<c>>)
    \/ RegStep(t)

SpecRegMT == InitAlone /\ [][NextRegMT]_vars

(***************************************************************************)
(* A chunk file and a ChunkReader on it.  The file is laid down chunk by   *)
(* chunk, possibly cut inside its last chunk; it is complete when the      *)
(* reader is opened.                                                       *)
(***************************************************************************)
\* the chunks a file is made of: blocks of one and of two chunks, a trailer
\* block, a chunk that declares no chunk, a chunk with a payload size
\* above the limit and a chunk whose checksum field is wrong
ChunkChoices ==
  { MakeChunk(MagicPacked, 0, 1, 0, <<7>>),
    MakeChunk(MagicPacked, 0, 2, 0, <<5, 5>>),
    MakeChunk(MagicPacked, 0, 2, 1, <<>>),
    MakeChunk(MagicTrailer, 0, 1, 0, <<9>>),
    MakeChunk(MagicTrailer, 0, 2, 1, <<6>>),
    MakeChunk(MagicPacked, 0, 0, 0, <<>>),
    [head |-> MagicPacked \o <<0, 0, 0, 0>> \o LEBytes(0, 4)
                \o LEBytes(MaxChunkPayloadSize + 1, 4) \o LEBytes(1, 4)
                \o LEBytes(0, 4),
     payload |-> <<>>],
    [MakeChunk(MagicPacked, 0, 1, 0, <<7>>) EXCEPT !.payload = <<8>>] }

\* bytes of a chunk cut short by the end of the file
CutLengths == {100}

AppendChunk(c) ==
  /\ ~ck.open
  /\ ck.file.tail = 0
  /\ Len(ck.file.chunks) < MaxChunks
  /\ ck' = [ck EXCEPT !.file.chunks = Append(@, c)]
  /\ UNCHANGED <<legacy, fl, reg, flip, v2, bp>>

AppendCut(n) ==
  /\ ~ck.open
  /\ ck.file.tail = 0
  /\ ck' = [ck EXCEPT !.file.tail = n]
  /\ UNCHANGED <<legacy, fl, reg, flip, v2, bp>>

OpenChunkReader ==
  /\ ~ck.open
  /\ ck' = [ck EXCEPT !.open = TRUE, !.r = NewChunkReader]
  /\ UNCHANGED <<legacy, fl, reg, flip, v2, bp>>

\* a call of the ChunkReader; fault > 0: a Read of the call returns an
\* error; fault < 0: a Read of the call is short
ChunkCall(op, fault, ret, r) ==
  /\ ck.open
  /\ ck.ops < MaxChunkOps
  /\ fault > 0 => (ck.faults < MaxFaults /\ r.reads >= fault)
  /\ fault < 0 => (ck.faults < MaxFaults /\ r.reads >= -fault)
  /\ ck' = [ck EXCEPT !.r = r, !.ops = @ + 1,
                      !.faults = IF fault # 0 THEN @ + 1 ELSE @,
                      !.last = [op |-> op, ret |-> ret, before |-> ck.r,
                                fault |-> fault]]
  /\ UNCHANGED <<legacy, fl, reg, flip, v2, bp>>

ChunkScanCall(fault, s) == ChunkCall("Scan", fault, s.ok, s.r)

\* cr.Scan()
ScanBlock(fault) == ChunkScanCall(fault, ChunkScan(ck.r, ck.file, fault))

\* cr.Seek(off) to a chunk boundary
SeekBlock(off) == ChunkCall("Seek", 0, TRUE, ChunkSeek(ck.r, off))

\* cr.SeekLastBlock()
SeekTrailer(fault) ==
  ChunkCall("SeekLastBlock", fault, TRUE, SeekLastBlock(ck.r, ck.file, fault))

ReadFaults == (-2)..2

NextChunk ==
  \/ \E c \in ChunkChoices : AppendChunk(c)
  \/ \E n \in CutLengths : AppendCut(n)
  \/ OpenChunkReader
  \/ \E fault \in ReadFaults : ScanBlock(fault)
  \/ \E k \in 0..Len(ck.file.chunks) : SeekBlock(k * ChunkSize)
  \/ \E fault \in (-1)..1 : SeekTrailer(fault)

SpecChunk == InitAlone /\ [][NextChunk]_vars

(***************************************************************************)
(* The ChunkReader on long files: a file is stored, then SeekLastBlock and *)
(* Scan are called in any order.                                           *)
(***************************************************************************)
MaxLongData == 2
MaxLongOps == 3

\* the numbers of chunks of the trailer block: none, few, and those about
\* which the product -ChunkSize * (index + 1) leaves the int range
TrailerLens ==
  {0, 1, 2, 3, IntHalf - 1, IntHalf, IntHalf + 1, IntHalf + 2, IntSpan - 1, IntSpan,
   IntSpan + 1}

StoreLong(d, n) ==
  /\ ~ck.long.stored
  /\ ck' = [ck EXCEPT !.long.file = [data |-> d, trailer |-> n], !.long.stored = TRUE]
  /\ UNCHANGED <<legacy, fl, reg, flip, v2, bp>>

LongCall(op, ret, r, rerr, block) ==
  /\ ck.long.stored
  /\ ck.long.ops < MaxLongOps
  /\ ck' = [ck EXCEPT !.long.r = r, !.long.ops = @ + 1,
                      !.long.last = [op |-> op, ret |-> ret, before |-> ck.long.r,
                                     rerr |-> rerr, block |-> block,
                                     sought |-> /\ ck.long.last.op = "SeekLastBlock"
                                                /\ ~ck.long.last.rerr
                                                /\ ck.long.last.before.err_ = ""]]
  /\ UNCHANGED <<legacy, fl, reg, flip, v2, bp>>

\* cr.SeekLastBlock()
LongSeekTrailer(rerr) ==
  \E off \in SeekBackOffsets(LongChunkAt(ck.long.file, LongSize(ck.long.file) - 1).index) :
    LongCall("SeekLastBlock", TRUE,
             LongSeekLastBlock(ck.long.r, ck.long.file, rerr, off), rerr,
             NoLongFile.last.block)

LongScanReturn(s) == LongCall("Scan", s.ok, s.r, FALSE, s.block)

\* cr.Scan()
LongScanBlock == LongScanReturn(LongScan(ck.long.r, ck.long.file))

NextLong ==
  \/ \E d \in 0..MaxLongData : \E n \in TrailerLens : StoreLong(d, n)
  \/ \E rerr \in BOOLEAN : LongSeekTrailer(rerr)
  \/ LongScanBlock

SpecLong == InitAlone /\ [][NextLong]_vars

(***************************************************************************)
(* Stored files that suffer one bit flip before they are read: a file of   *)
(* the writer read by the legacy reader, or a chunk file read by the       *)
(* ChunkReader.  The flip falls in the bytes after the magic of a block    *)
(* header (offsets 8 .. 16 of the block), in the payload of a packed block *)
(* after its checksum field (from offset 24), or in the bytes 12 .. 28 +   *)
(* size of a chunk.                                                        *)
(***************************************************************************)
FlipOpts ==
  { DefaultWriterOpts,
    [DefaultWriterOpts EXCEPT !.packed = TRUE, !.max_packed_items = 2,
                              !.max_packed_bytes = 3],
    [DefaultWriterOpts EXCEPT !.packed = TRUE, !.transformer = "flate",
                              !.max_packed_items = 2, !.max_packed_bytes = 3] }

FlipItems == {Item(Rec(1), 0), Item(Rec(3), 0)}

\* the chunks of a file written without damage
WrittenChunks ==
  { MakeChunk(MagicPacked, 0, 1, 0, <<7>>),
    MakeChunk(MagicPacked, 0, 2, 0, <<5, 5>>),
    MakeChunk(MagicPacked, 0, 2, 1, <<>>),
    MakeChunk(MagicTrailer, 0, 1, 0, <<9>>) }

\* the length of the item count and item sizes of a packed block
RECURSIVE SizesLen(_)
SizesLen(items) ==
  IF items = <<>> THEN 0
  ELSE Len(UVarint(Len(Head(items).bytes))) + SizesLen(Tail(items))

VarintsLen(items) == Len(UVarint(Len(items))) + SizesLen(items)

\* the offsets, from the start of block b, of the three kinds of bytes
HeaderSites == 8..15
ListSites(b) == IF opts.packed THEN 24..(HeaderSize + b.size - 1) ELSE {}
SizeSites(b) == IF opts.packed THEN 24..(23 + VarintsLen(b.items)) ELSE {}

\* one bit of the stored file of the writer is inverted
FlipFileBit(k, at, bit) ==
  /\ ~flip.done
  /\ ctl.closes >= 1
  /\ ~rd.open
  /\ ck = NoChunks
  /\ gh.blocks[k].items # <<>>
  /\ at \in HeaderSites \cup ListSites(gh.blocks[k])
  /\ wr' = [wr EXCEPT !.out[gh.blocks[k].start + at + 1] = FlipBit(@, bit)]
  /\ flip' = [done |-> TRUE,
              region |-> IF at \in HeaderSites THEN "header"
                         ELSE IF at \in SizeSites(gh.blocks[k]) THEN "sizes"
                         ELSE "items",
              block |-> k, at |-> at, bit |-> bit]
  /\ UNCHANGED <<opts, gh, last, ctl, rd, rh, sets, fl, reg, ck, v2, bp>>

\* the chunk with one bit of byte at inverted; at counts from the start of
\* the chunk
FlippedChunk(c, at, bit) ==
  IF at < ChunkHeaderSize THEN [c EXCEPT !.head[at + 1] = FlipBit(@, bit)]
  ELSE [c EXCEPT !.payload[at - ChunkHeaderSize + 1] = FlipBit(@, bit)]

\* the bits of a chunk that are inverted: those of bytes 12 .. 28 + size,
\* without the bits 3 .. 14 of the payload size
ChunkSites(c) ==
  {<<at, bit>> : at \in 12..(27 + Len(c.payload)), bit \in 0..7}
    \ ({<<16, bit>> : bit \in 3..7} \cup {<<17, bit>> : bit \in 0..6})

\* one bit of a chunk of the stored chunk file is inverted
FlipChunkBit(k, at, bit) ==
  /\ ~flip.done
  /\ ~ck.open
  /\ ck.file.tail = 0
  /\ <<at, bit>> \in ChunkSites(ck.file.chunks[k])
  /\ ck' = [ck EXCEPT !.file.chunks[k] = FlippedChunk(@, at, bit)]
  /\ flip' = [done |-> TRUE, region |-> "chunk", block |-> k, at |-> at, bit |-> bit]
  /\ UNCHANGED <<legacy, fl, reg, v2, bp>>

NextFlip ==
  \/ \E item \in FlipItems : ck = NoChunks /\ ~flip.done /\ Write(item, NoEnv)
  \/ ck = NoChunks /\ ctl.closes = 0 /\ Close(NoEnv)
  \/ \E k \in 1..Len(gh.blocks) : \E at \in 8..(HeaderSize + gh.blocks[k].size - 1) :
       \E bit \in 0..7 : FlipFileBit(k, at, bit)
  \/ OpenReader(0)
  \/ Scan
  \/ \E c \in WrittenChunks : ctl.writes = 0 /\ ctl.closes = 0 /\ AppendChunk(c)
  \/ \E k \in 1..Len(ck.file.chunks) : \E at \in 12..(ChunkHeaderSize + 1) :
       \E bit \in 0..7 : FlipChunkBit(k, at, bit)
  \/ Len(ck.file.chunks) > 0 /\ OpenChunkReader
  \/ ScanBlock(0)

InitFlip == InitW(0) /\ opts \in FlipOpts

SpecFlip == InitFlip /\ [][NextFlip]_vars

(***************************************************************************)
(* A v2 file and the v2 reader on it.  The file is laid down block by      *)
(* block: the header block, the data blocks, and the trailer block when    *)
(* the header declares one.  It has no transformer entry.  A block of two  *)
(* chunks carries half of its payload in each.  The file is complete when  *)
(* the reader is opened.                                                   *)
(***************************************************************************)
\* the packed-item list of a block: checksum, item count, item sizes, items
PackedList(items) ==
  AppendHeader(Len(items), Concat([k \in 1..Len(items) |-> UVarint(Len(items[k]))]))
    \o Concat(items)

\* the chunks of a block with the given payload
BlockChunks(magic, payload, n) ==
  IF n = 1 THEN <<MakeChunk(magic, 0, 1, 0, payload)>>
  ELSE <<MakeChunk(magic, 0, 2, 0, Slice(payload, 1, Len(payload) \div 2)),
         MakeChunk(magic, 0, 2, 1, Slice(payload, Len(payload) \div 2 + 1, Len(payload)))>>

\* header dictionaries: none, trailer = false, trailer = true, and
\* trailer = true after another entry
V2Headers ==
  { <<>>, <<BoolEntry(KeyTrailer, FALSE)>>, <<BoolEntry(KeyTrailer, TRUE)>>,
    <<BoolEntry(<<98>>, FALSE), BoolEntry(KeyTrailer, TRUE)>> }

\* the items of the data block number k
V2ItemLists(k) == { <<(<<k>>)>>, <<(<<k, 0>>), (<<k + 10>>)>> }

V2Trailers == { <<84>>, <<84, 114>> }

ChunkCounts == {1, 2}

WriteV2Block(magic, items, n, declared) ==
  /\ ~v2.open
  /\ v2' = [v2 EXCEPT
              !.file.chunks = @ \o BlockChunks(magic, PackedList(items), n),
              !.blocks = Append(@, [off |-> Len(v2.file.chunks) * ChunkSize,
                                    magic |-> magic, items |-> items,
                                    declared |-> declared])]
  /\ UNCHANGED <<legacy, fl, reg, ck, flip, bp>>

\* the header of the file declares a trailer
Declared == v2.blocks # <<>> /\ v2.blocks[1].declared

\* the file ends with its trailer block
Trailed == v2.blocks # <<>> /\ v2.blocks[Len(v2.blocks)].magic = MagicTrailer

WriteV2Header(h) ==
  /\ v2.blocks = <<>>
  /\ WriteV2Block(MagicHeader, <<EncodeHeader(h)>>, 1,
                  \E k \in 1..Len(h) : h[k] = BoolEntry(KeyTrailer, TRUE))

WriteV2Data(items, n) ==
  /\ v2.blocks # <<>>
  /\ ~Trailed
  /\ Len(v2.blocks) <= MaxV2Data
  /\ WriteV2Block(MagicPacked, items, n, FALSE)

WriteV2Trailer(bytes, n) ==
  /\ Declared
  /\ ~Trailed
  /\ WriteV2Block(MagicTrailer, <<bytes>>, n, FALSE)

OpenV2 ==
  /\ ~v2.open
  /\ v2.blocks # <<>>
  /\ Declared => Trailed
  /\ \E over \in ShiftBuilds :
       v2' = [v2 EXCEPT !.open = TRUE, !.r = V2Open(v2.file, over)]
  /\ UNCHANGED <<legacy, fl, reg, ck, flip, bp>>

\* a call on the v2 reader; loc is the location of a Seek, and for a Scan
\* the location of the Seek that came just before it
V2Call(op, ret, R, got, loc) ==
  /\ v2.open
  /\ v2.ops < MaxV2Ops
  /\ v2' = [v2 EXCEPT !.r = R, !.ops = @ + 1,
                      !.ended = @ \/ ~ret,
                      !.last = [op |-> op, ret |-> ret, got |-> got, after |-> loc,
                                ended_before |-> v2.ended]]
  /\ UNCHANGED <<legacy, fl, reg, ck, flip, bp>>

V2ScanReturn(s) ==
  V2Call("Scan", s.ok, s.R, IF s.ok THEN V2Get(s.R) ELSE <<>>,
         IF v2.last.op = "Seek" THEN v2.last.after ELSE NoLoc)

\* r->Scan(), followed by r->Get() when it returned true
V2ScanCall == V2ScanReturn(V2Scan(v2.r, v2.file))

\* r->Seek(loc) for the location of an item
V2SeekCall(loc) ==
  /\ \E k \in 1..Len(v2.blocks) :
       /\ v2.blocks[k].off = loc.block
       /\ v2.blocks[k].magic = MagicPacked
       /\ loc.item < Len(v2.blocks[k].items)
  /\ V2Call("Seek", TRUE, V2Seek(v2.r, loc), <<>>, loc)

NextV2 ==
  \/ \E h \in V2Headers : WriteV2Header(h)
  \/ \E items \in V2ItemLists(Len(v2.blocks)) : \E n \in ChunkCounts : WriteV2Data(items, n)
  \/ \E bytes \in V2Trailers : \E n \in ChunkCounts : WriteV2Trailer(bytes, n)
  \/ OpenV2
  \/ V2ScanCall
  \/ \E b \in 1..(MaxV2Data + 2) : \E i \in 0..1 :
       V2SeekCall([block |-> b * ChunkSize, item |-> i])

SpecV2 == InitAlone /\ [][NextV2]_vars

(***************************************************************************)
(* The BinaryParser and DecodeHeader on buffers of any bytes.  A parser is *)
(* made over a buffer and called up to MaxParserOps times; the count of a  *)
(* ReadString is a small number or, as in ReadValue, the conversion to int *)
(* of the uvarint that was read just before.  No call is made on a parser  *)
(* that threw.                                                             *)
(***************************************************************************)
MaxParserOps == 2

Rep(byte, n) == [i \in 1..n |-> byte]

\* an int64_t with the 31 low bits of low and the other bits equal to fill
Int64(low, fill) == [k \in 1..64 |-> IF k <= 31 THEN BitOf(low, k - 1) ELSE fill]

Min64 == [k \in 1..64 |-> IF k = 64 THEN 1 ELSE 0]

Max64 == [k \in 1..64 |-> IF k = 64 THEN 0 ELSE 1]

Int64Samples ==
  {Int64(low, fill) : low \in {0, 1, 2, 63, 64, 300, 2147483647}, fill \in {0, 1}}
    \cup {Min64, Max64}

\* the zig-zag form (n << 1) ^ (n >> 63) of an int64_t
ZigZagOf(n) ==
  [k \in 1..64 |-> ((IF k = 1 THEN 0 ELSE n[k - 1]) + n[64]) % 2]

\* the 7-bit group number i, from 0, of a uint64_t
Group7(u, i) ==
  LowBits([k \in 1..7 |-> IF 7 * i + k <= 64 THEN u[7 * i + k] ELSE 0], 7)

\* the number of the last group that is not zero
TopGroup(u) ==
  IF \A i \in 0..9 : Group7(u, i) = 0 THEN 0
  ELSE CHOOSE i \in 0..9 : Group7(u, i) # 0 /\ \A j \in (i + 1)..9 : Group7(u, j) = 0

\* the uvarint of a uint64_t: seven bits a byte from the low end, 0x80 set
\* on every byte but the last
UVarintOf(u) ==
  [i \in 1..(TopGroup(u) + 1) |->
     Group7(u, i - 1) + (IF i <= TopGroup(u) THEN 128 ELSE 0)]

ParserInputs ==
  { <<>>, <<0>>, <<127>>, <<128>>, <<172, 2>>, <<255, 255>>, <<2, 65, 66>>, <<3, 65>>,
    <<1, 2, 3, 4>>, <<1, 2, 3, 4, 5, 6, 7>>, <<1, 2, 3, 4, 5, 6, 7, 8, 9>>,
    Rep(128, 9) \o <<1>>, Rep(255, 9) \o <<1>>, Rep(255, 9) \o <<2>>,
    Rep(255, 9) \o <<127>>, Rep(255, 10), Rep(128, 10) \o <<0>>,
    Rep(255, 11), Rep(255, 12) \o <<1>>,
    <<255, 255, 255, 255, 15>>, <<250, 255, 255, 255, 15, 7>> }
    \cup {UVarintOf(ZigZagOf(n)) : n \in Int64Samples}

\* a header entry: a STRING key and the bytes of a tagged value
KeyedEntry(key, value) == <<4, 3>> \o UVarint(Len(key)) \o key \o value

HeaderInputs ==
  { <<>>, <<0>>, <<3>>, <<3, 0>>, <<3, 1>>, <<3, 128>>,
    EncodeHeader(<<BoolEntry(KeyTrailer, TRUE)>>),
    EncodeHeader(<<KeyedEntry(<<105>>, <<2>> \o UVarint(24690)),
                   KeyedEntry(<<117>>, <<3>> \o UVarint(12345)),
                   KeyedEntry(<<115>>, <<4, 3, 2, 72, 105>>),
                   BoolEntry(<<98>>, TRUE)>>),
    <<3, 2>> \o BoolEntry(<<98>>, TRUE),
    <<3, 1, 1, 1, 1, 1>>, <<3, 1, 4, 3, 1, 107, 9>>, <<3, 1, 4, 3, 1, 107, 3>>,
    <<3, 1, 4, 3, 1, 107, 3, 128>>, <<3, 1, 4, 3, 1, 107, 1>>,
    <<3, 1, 4, 3, 2, 107>>, <<3, 1, 4, 2, 1, 107, 1, 1>>,
    <<3, 128, 128, 128, 128, 8>>, <<3, 255, 255, 255, 255, 15>>,
    <<3, 129, 128, 128, 128, 16>> \o BoolEntry(<<98>>, TRUE),
    <<3, 1, 4, 3, 250, 255, 255, 255, 15>>,
    <<3, 1, 4, 3, 1, 107, 4, 3, 252, 255, 255, 255, 15>> }

\* BinaryParser parser(data, size, err) with an ErrorReporter that holds no
\* error
MakeParser(data) ==
  /\ ~bp.made
  /\ bp' = [bp EXCEPT !.P = BinaryParser(data, Len(data), ""), !.made = TRUE]
  /\ UNCHANGED <<legacy, fl, reg, ck, flip, v2>>

\* a call on the parser that returned v and left the parser P
ParserCall(op, bytes, v, P) ==
  /\ bp.made
  /\ bp.ops < MaxParserOps
  /\ ~bp.P.thrown
  /\ bp' = [bp EXCEPT !.P = P, !.ops = @ + 1,
                      !.last = [op |-> op, bytes |-> bytes, before |-> bp.P, v |-> v]]
  /\ UNCHANGED <<legacy, fl, reg, ck, flip, v2>>

VarintCall(op, r) == ParserCall(op, 0, r.v, r.P)

ReadUVarintCall(over) == VarintCall("ReadUVarint", BinaryParserReadUVarint(bp.P, over))

ReadVarintCall(over) == VarintCall("ReadVarint", BinaryParserReadVarint(bp.P, over))

ReadBytesCall(bytes) ==
  ParserCall("ReadBytes", bytes, <<>>, BinaryParserReadBytes(bp.P, bytes).P)

\* the counts of a ReadString
StringCounts ==
  {0, 2} \cup (IF bp.last.op = "ReadUVarint" THEN {Uint64ToInt(bp.last.v)} ELSE {})

StringCall(bytes, r) == ParserCall("ReadString", bytes, r.s, r.P)

ReadStringCall(bytes) == StringCall(bytes, BinaryParserReadString(bp.P, bytes))

ReadLEUint32Call ==
  VarintCall("ReadLEUint32", BinaryParserReadLEUint32(bp.P))

ReadLEUint64Call ==
  VarintCall("ReadLEUint64", BinaryParserReadLEUint64(bp.P))

\* internal::DecodeHeader(data, size, err) with an ErrorReporter that holds
\* no error; before is the parser it makes, P the parser at its return
HeaderCall(P, h) ==
  /\ ~bp.made
  /\ bp' = [bp EXCEPT !.P = h.P, !.made = TRUE, !.ops = MaxParserOps,
                      !.last = [op |-> "DecodeHeader", bytes |-> 0, before |-> P,
                                v |-> h.entries]]
  /\ UNCHANGED <<legacy, fl, reg, ck, flip, v2>>

DecodeHeaderCall(data, over) ==
  HeaderCall(BinaryParser(data, Len(data), ""),
             DecodeParsed(BinaryParser(data, Len(data), ""), over))

NextParser ==
  \/ \E data \in ParserInputs : MakeParser(data)
  \/ \E over \in ShiftBuilds : ReadUVarintCall(over)
  \/ \E over \in ShiftBuilds : ReadVarintCall(over)
  \/ \E bytes \in {1, 4} : ReadBytesCall(bytes)
  \/ \E bytes \in StringCounts : ReadStringCall(bytes)
  \/ ReadLEUint32Call
  \/ ReadLEUint64Call
  \/ \E data \in HeaderInputs : \E over \in ShiftBuilds : DecodeHeaderCall(data, over)

SpecParser == InitAlone /\ [][NextParser]_vars

(***************************************************************************)
(* Properties of the writer, stated on SpecW.                              *)
(***************************************************************************)
RECURSIVE TotalSize(_)
TotalSize(items) ==
  IF items = <<>> THEN 0 ELSE Len(Head(items).bytes) + TotalSize(Tail(items))

\* the call left the sink, the index and the pending block as it found them
NoEffect ==
  /\ wr.out = last.before.out
  /\ wr.block_offsets_ = last.before.block_offsets_
  /\ wr.items_count_ = last.before.items_count_
  /\ wr.sizes_ = last.before.sizes_
  /\ wr.buffered_items_ = last.before.buffered_items_
  /\ wr.buffered_gib = last.before.buffered_gib

\* C3: once the writer's error is set, a Write returns false, writes no byte
\* to the sink, calls no indexer and buffers no item.
C3_WriteAfterErrorDoesNothing ==
  (last.op = "Write" /\ last.before.err_ # "") => (~last.ret /\ NoEffect)

\* C5: Close on a packed writer emits one block holding all pending items
\* when an item is pending and writes nothing when none is; after a Close
\* that returned true every accepted item is in a block of the sink.
C5_CloseEmitsPendingOnly ==
  (last.op = "Close" /\ opts.packed) =>
    /\ (last.before.items_count_ = 0) => (wr.out = last.before.out)
    /\ (last.before.items_count_ > 0 /\ last.ret) =>
         /\ Len(gh.blocks) > 0
         /\ Len(gh.blocks[Len(gh.blocks)].items) = last.before.items_count_
    /\ last.ret =>
         \A i \in 1..Len(gh.accepted) :
           \E k \in 1..Len(gh.blocks) :
             \E j \in 1..Len(gh.blocks[k].items) : gh.blocks[k].items[j] = gh.accepted[i]

\* C6: in packed mode with max_items >= 1 every emitted block holds at least
\* 1 and at most max_items items whose sizes sum to at most max_bytes, and a
\* Write emits a block only when its item would exceed one of the bounds.
C6_BlockBounds ==
  (opts.packed /\ opts.max_packed_items >= 1) =>
    /\ \A k \in 1..Len(gh.blocks) :
         /\ Len(gh.blocks[k].items) >= 1
         /\ Len(gh.blocks[k].items) <= opts.max_packed_items
         /\ TotalSize(gh.blocks[k].items) <= opts.max_packed_bytes
    /\ (last.op = "Write" /\ last.written) =>
         \/ last.before.items_count_ + 1 > opts.max_packed_items
         \/ Len(last.before.buffered_items_) + Len(last.item.bytes)
              > opts.max_packed_bytes

\* the item fills a block on its own: its size is exactly max_bytes
FillsBlock(item) == item.gib = 0 /\ Len(item.bytes) = opts.max_packed_bytes

\* the emitted blocks and the pending block, each as its items
Groups == {gh.blocks[k].items : k \in 1..Len(gh.blocks)} \cup {gh.pending}

\* C7: in packed mode a Write of an item of exactly max_bytes bytes is not
\* refused (it returns true unless the Flush it starts fails), and such an
\* item shares its block with no other item that holds a byte, whatever was
\* written before or after it (items of zero length add nothing to the block
\* and are not counted here).
C7_ExactFitAlone ==
  opts.packed =>
    /\ (last.op = "Write" /\ FillsBlock(last.item)) =>
         (last.ret \/ (last.flushed /\ ~last.written) \/ (last.indexed /\ last.env.ixerr))
    /\ \A g \in Groups :
         \A i, j \in 1..Len(g) :
           (FillsBlock(g[i]) /\ i # j) => (g[j].gib = 0 /\ Len(g[j].bytes) = 0)

\* C8: in packed mode a Write of an item larger than max_bytes returns false,
\* records the ItemTooLarge error (the first error is the one kept), writes
\* nothing to the sink and leaves the pending items unchanged.
C8_TooLargeRejected ==
  (last.op = "Write" /\ opts.packed
     /\ (last.item.gib > 0 \/ Len(last.item.bytes) > opts.max_packed_bytes)) =>
    /\ ~last.ret
    /\ last.before.err_ = "" => wr.err_ = "Item size exceeds block size"
    /\ NoEffect

\* the start of block k computed from the blocks before it: each is a
\* 20-byte header and its payload
RECURSIVE SumBlocks(_, _)
SumBlocks(blocks, k) ==
  IF k = 0 THEN 0 ELSE 20 + blocks[k].size + SumBlocks(blocks, k - 1)

\* C9: with an indexer, IndexBlock is called once per emitted block, in
\* emission order and after the block's bytes were written; call k receives
\* the sum of 20 + payload length over the blocks before block k, so the
\* offsets increase strictly; an error from IndexBlock makes the Write or
\* Close return false and is passed to SetError.
C9_IndexerOffsets ==
  opts.indexer =>
    /\ Len(wr.block_offsets_) = Len(gh.blocks)
    /\ \A k \in 1..Len(gh.blocks) :
         /\ wr.block_offsets_[k] = gh.blocks[k].start
         /\ wr.block_offsets_[k] = SumBlocks(gh.blocks, k - 1)
         /\ k > 1 => wr.block_offsets_[k] > wr.block_offsets_[k - 1]
    /\ last.indexed = last.written
    /\ (last.indexed /\ last.env.ixerr) =>
         /\ ~last.ret
         /\ wr.err_ # ""
         /\ last.before.err_ = "" => wr.err_ = "Indexer error: index failed"
    /\ (last.indexed /\ ~last.env.ixerr /\ last.op = "Close") => last.ret

\* C9 witness: two blocks were indexed and the indexer failed on the second
C9_Witness ==
  /\ opts.indexer
  /\ Len(wr.block_offsets_) = 2
  /\ wr.block_offsets_[2] > 20
  /\ last.indexed
  /\ last.env.ixerr

(***************************************************************************)
(* Properties of the error cells, stated on SpecErr.                       *)
(***************************************************************************)
\* the first non-empty message of a sequence of messages, "" if there is none
RECURSIVE FirstNonEmpty(_)
FirstNonEmpty(msgs) ==
  IF msgs = <<>> THEN ""
  ELSE IF Head(msgs) # "" THEN Head(msgs)
  ELSE FirstNonEmpty(Tail(msgs))

\* C4: after any sequence of Set / SetError calls the stored error is the
\* argument of the first call with a non-empty message; a call with an empty
\* message changes nothing.
C4_FirstErrorKept ==
  /\ rd.err_ = FirstNonEmpty(sets.reporter)
  /\ wr.err_ = FirstNonEmpty(sets.writer)

\* C4 witness: each cell received two different non-empty messages
C4_Witness ==
  /\ \E i, j \in 1..Len(sets.reporter) :
       i < j /\ sets.reporter[i] # "" /\ sets.reporter[j] # ""
             /\ sets.reporter[i] # sets.reporter[j]
  /\ \E i, j \in 1..Len(sets.writer) :
       i < j /\ sets.writer[i] # "" /\ sets.writer[j] # ""
             /\ sets.writer[i] # sets.writer[j]

(***************************************************************************)
(* Properties of writing and reading back, stated on Spec.                 *)
(***************************************************************************)
IsPrefix(a, b) == Len(a) <= Len(b) /\ \A k \in 1..Len(a) : a[k] = b[k]

BytesOf(items) == [k \in 1..Len(items) |-> items[k].bytes]

\* the records of the blocks that start at offset off or later
RECURSIVE RecordsFrom(_, _, _)
RecordsFrom(blocks, k, off) ==
  IF k > Len(blocks) THEN <<>>
  ELSE (IF blocks[k].start >= off THEN BytesOf(blocks[k].items) ELSE <<>>)
         \o RecordsFrom(blocks, k + 1, off)

\* C1: when every Write returned true and one Close followed, the matching
\* legacy reader, from the start of the file, yields the written records in
\* order and then Scan returns false with an empty Error(), for every
\* setting with max_packed_items >= 1.
C1_RoundTrip ==
  (rd.open /\ rd.start = 0 /\ rh.seeks = 0 /\ ctl.closes = 1
     /\ opts.max_packed_items >= 1 /\ Len(gh.accepted) = ctl.writes) =>
    /\ IsPrefix(rh.yielded, BytesOf(gh.accepted))
    /\ rh.ended => (rh.yielded = BytesOf(gh.accepted) /\ rd.err_ = "")

\* C2: a Scan of a legacy reader returns false when an error is recorded or
\* a Scan has returned false before, and Error() is empty after a Scan that
\* returned true.
C2_ScanFalseAfterError ==
  (rh.last.op = "Scan") =>
    /\ (rh.last.before.err_ # "" \/ rh.last.ended_before) => ~rh.last.ret
    /\ rh.last.ret => rd.err_ = ""

\* C10: a legacy reader positioned at an offset the indexer received yields
\* the records of the block at that offset and of all later blocks, in
\* written order, and no other record (settings with max_packed_items >= 1).
C10_ReadFromIndexedOffset ==
  (rd.open /\ opts.indexer /\ rd.start \in IndexedOffsets /\ rh.seeks = 0
     /\ opts.max_packed_items >= 1) =>
    /\ IsPrefix(rh.yielded, RecordsFrom(gh.blocks, 1, rd.start))
    /\ rh.ended => rh.yielded = RecordsFrom(gh.blocks, 1, rd.start)

(***************************************************************************)
(* Seek on a legacy reader, stated on Spec.                                *)
(***************************************************************************)
\* C15: Seek on a legacy reader leaves Error() non-empty ("Seek not
\* supported" unless an earlier error is kept) and changes neither the
\* position of the source nor the current record.
C15_SeekUnsupported ==
  (rh.last.op = "Seek") =>
    /\ rd.err_ # ""
    /\ rh.last.before.err_ = "" => rd.err_ = "Seek not supported"
    /\ rh.last.before.err_ # "" => rd.err_ = rh.last.before.err_
    /\ rd.pos = rh.last.before.pos
    /\ rd.failed = rh.last.before.failed
    /\ rd.block_ = rh.last.before.block_
    /\ rd.items_ = rh.last.before.items_
    /\ rd.items_start_ = rh.last.before.items_start_
    /\ rd.cur_item_ = rh.last.before.cur_item_

\* C15 witness: a Seek made after a record was read and before the end of the
\* file, on a reader without error
C15_Witness ==
  /\ rh.last.op = "Seek"
  /\ rh.last.before.err_ = ""
  /\ rh.yielded # <<>>
  /\ ~rh.ended
  /\ rd.pos > rd.start

(***************************************************************************)
(* Layout of the unpacked file, stated on SpecW.                           *)
(***************************************************************************)
\* the block of record r as the format lays it out: magic, length, CRC32 of
\* the length bytes, record
UnpackedBlock(r) ==
  <<252, 174, 149, 49, 240, 217, 189, 32>>
    \o LEBytes(Len(r), 8) \o Crc32(LEBytes(Len(r), 8)) \o r

RECURSIVE UnpackedFile(_)
UnpackedFile(items) ==
  IF items = <<>> THEN <<>>
  ELSE UnpackedBlock(Head(items).bytes) \o UnpackedFile(Tail(items))

\* C19: in unpacked mode without transformer a Write that returns true
\* appends exactly the block of its record (magic, 8-byte little-endian
\* length, CRC32 of the length bytes, record); when every Write returned
\* true the file is the concatenation of the blocks in call order; the block
\* of a zero-length record is the 20 bytes of its header.
C19_UnpackedLayout ==
  (~opts.packed /\ opts.transformer = "none") =>
    /\ (last.op = "Write" /\ last.ret) =>
         wr.out = last.before.out \o UnpackedBlock(last.item.bytes)
    /\ (Len(gh.accepted) = ctl.writes) => wr.out = UnpackedFile(gh.accepted)
    /\ (last.op = "Write" /\ last.ret /\ last.item.bytes = <<>>) =>
         wr.out = last.before.out \o
           <<252, 174, 149, 49, 240, 217, 189, 32, 0, 0, 0, 0, 0, 0, 0, 0,
             105, 223, 34, 101>>

\* C19 witness: three records written, among them a zero-length one and a
\* non-empty one
C19_Witness ==
  /\ ~opts.packed
  /\ opts.transformer = "none"
  /\ Len(gh.accepted) = 3
  /\ \E i, j \in 1..3 : gh.accepted[i].bytes = <<>> /\ gh.accepted[j].bytes # <<>>
  /\ Len(wr.out) > 60

(***************************************************************************)
(* Properties of the flate transformers, stated on SpecFlate.              *)
(***************************************************************************)
\* every slice of the IoVec holds a byte, or the IoVec is the one empty slice
ProperPartition(in_iov) ==
  Len(in_iov) = 1 \/ \A k \in 1..Len(in_iov) : in_iov[k] # <<>>

\* C12: for every byte string B and every partition of B into 1..3 slices,
\* the flate encoder on the slices followed by the unflate decoder on the
\* encoder's output reports no error and returns exactly the bytes of B.
C12_FlateRoundTrip ==
  (fl.calls > 0 /\ ProperPartition(fl.in_iov)) =>
    /\ fl.enc.err = ""
    /\ fl.dec.err = ""
    /\ fl.dec.out = fl.B


(***************************************************************************)
(* Properties of the registry, stated on SpecReg and SpecRegMT.            *)
(***************************************************************************)
\* a thread whose last call was a lookup of one config string, now returned
Looked(t) ==
  /\ reg.th[t].pc = "idle"
  /\ reg.th[t].op \in LookupKinds
  /\ Len(reg.th[t].names) = 1

\* C13: GetTransformer and GetUntransformer split the config string at its
\* first run of whitespace into a name and args, so that "flate 5" resolves
\* the transformer "flate" with args "5"; the lookup fails only when the
\* name is not registered.
C13_ConfigSplit ==
  \A t \in Threads :
    Looked(t) =>
      LET c == reg.th[t].names[1]
          name == IF FirstSpace(c) = 0 THEN c ELSE SubSeq(c, 1, FirstSpace(c) - 1)
          args == IF FirstSpace(c) = 0 THEN <<>>
                  ELSE SubSeq(c, SpaceRunEnd(c, FirstSpace(c)) + 1, Len(c))
      IN  /\ (name \in DOMAIN reg.factories) =>
               (reg.th[t].err = "" /\ reg.th[t].tr = reg.th[t].op
                  /\ reg.th[t].name = name /\ reg.th[t].args = args)
          /\ (reg.th[t].err # "") => (name \notin DOMAIN reg.factories)

\* the number of times name occurs in a log
RECURSIVE Count(_, _)
Count(log, name) ==
  IF log = <<>> THEN 0
  ELSE (IF Head(log) = name THEN 1 ELSE 0) + Count(Tail(log), name)

RegistryConsistent ==
  /\ \A n \in RegNames :
       /\ Count(reg.inserts, n) <= 1
       /\ (Count(reg.checks, n) >= 2) => reg.aborted
  /\ \A t \in Threads :
       (Looked(t) /\ reg.th[t].name \in reg.th[t].visible) =>
         (reg.th[t].err = "" /\ reg.th[t].tr = reg.th[t].op)

EntriesKept ==
  \A n \in DOMAIN reg.factories :
    n \in DOMAIN reg'.factories /\ reg'.factories[n] = reg.factories[n]

\* C14: RegisterTransformer checks and inserts under one hold of the mutex:
\* with threads registering and looking up concurrently, at most one
\* registration per name takes effect, a second registration of a name
\* aborts the process, an entry is never changed or removed, and a lookup
\* that starts after a registration has returned finds the entry.
C14_RegistryAtomic == [](RegistryConsistent) /\ [][EntriesKept]_vars

\* C14 witness: a thread registered "zstd" and then looked it up with
\* success, while the other thread, which had entered RegisterTransformer
\* for "zstd" before that registration returned, aborted the process
C14_Witness ==
  /\ reg.aborted
  /\ \E t, u \in Threads :
       /\ reg.th[t].pc = "abort"
       /\ reg.th[t].name = <<"zstd">>
       /\ <<"zstd">> \notin reg.th[t].visible
       /\ Looked(u)
       /\ reg.th[u].name = <<"zstd">>
       /\ <<"zstd">> \in reg.th[u].visible
       /\ reg.th[u].err = ""
       /\ reg.factories[<<"zstd">>] = Entry(u, 1)

(***************************************************************************)
(* Properties of the ChunkReader, stated on SpecChunk.                     *)
(***************************************************************************)
\* the chunks of the file that the last call read whole, in read order
SeenChunks == [k \in 1..Len(ck.r.seen) |-> ck.file.chunks[ck.r.seen[k]]]

\* the header fields of a chunk of the file
FieldOf(c, from) == Slice(c.head, from, from + 3)

\* the k-th chunk read is in its place in a block that began with the first
\* chunk read: index k - 1, the magic and the total of the first chunk, a
\* payload size within the limit and the CRC32 of its bytes 12 .. 28 + size
InPlace(cs, k) ==
  /\ FieldOf(cs[k], 25) = LEBytes(k - 1, 4)
  /\ Slice(cs[k].head, 1, 8) = Slice(cs[1].head, 1, 8)
  /\ FieldOf(cs[k], 21) = FieldOf(cs[1], 21)
  /\ ~Exceeds(FieldOf(cs[k], 17), MaxChunkPayloadSize)
  /\ FieldOf(cs[k], 9)
       = Crc32(Slice(cs[k].head, 13, 28)
                 \o PayloadArea(cs[k], Low16(FieldOf(cs[k], 17))))

\* C20: ChunkReader::Scan returns true only after consuming chunks with
\* index 0, 1, .., total-1 in that order, all with the magic and the total
\* of the first, each with payload size <= 32740 and a matching CRC;
\* Chunks() is then the concatenation of their payloads and GetMagic()
\* their magic; a chunk read that breaks one of the conditions makes Scan
\* return false with an error recorded.
C20_ScanAssemblesBlock ==
  (ck.last.op = "Scan") =>
    /\ ck.last.ret =>
         /\ Len(SeenChunks) >= 1
         /\ FieldOf(SeenChunks[1], 21) = LEBytes(Len(SeenChunks), 4)
         /\ \A k \in 1..Len(SeenChunks) : InPlace(SeenChunks, k)
         /\ ck.r.iov_ = [k \in 1..Len(SeenChunks) |->
                           PayloadArea(SeenChunks[k], Low16(FieldOf(SeenChunks[k], 17)))]
         /\ ck.r.magic_ = Slice(SeenChunks[1].head, 1, 8)
         /\ ck.r.pos = ck.last.before.pos + Len(SeenChunks) * ChunkSize
         /\ ck.r.err_ = ""
    /\ (\E k \in 1..Len(SeenChunks) : ~InPlace(SeenChunks, k)) =>
         (~ck.last.ret /\ ck.r.err_ # "")

\* C20 witness: a Scan returned a block of two chunks with a payload
C20_Witness ==
  /\ ck.last.op = "Scan"
  /\ ck.last.ret
  /\ Len(ck.r.iov_) = 2
  /\ ck.r.iov_[1] # <<>>
  /\ ck.r.magic_ = MagicPacked

\* the items of the blocks that reached the sink whole, in file order
WrittenItems == Concat([k \in 1..Len(gh.blocks) |-> gh.blocks[k].items])

\* C23: across any sequence of Write and Close calls on a packed writer,
\* calls after a failed flush included, the items accepted by a Write are
\* written to the sink in at most one block: the items of the blocks written
\* are the first accepted items, each once, and the pending buffer is
\* cleared whenever its block has been written to the sink.
C23_PendingWrittenOnce ==
  opts.packed =>
    /\ Len(WrittenItems) <= Len(gh.accepted)
    /\ WrittenItems = SubSeq(gh.accepted, 1, Len(WrittenItems))
    /\ last.written =>
         (wr.items_count_ = IF last.op = "Write" /\ last.ret THEN 1 ELSE 0)

\* the bytes that slice k of iov_ points at, as the pool holds them now
SliceNow(k) ==
  PayloadArea(ck.file.chunks[ck.r.free_chunks_[ck.r.spans[k]]], Len(ck.r.iov_[k]))

\* C27: the slices of Chunks() point into pairwise distinct buffers of the
\* pool, and Seek and SeekLastBlock leave those buffers as the Scan filled
\* them; the pool never shrinks, and a Scan uses the buffers from the first
\* one on, adding a buffer only when it reads more chunks than the pool
\* holds.
C27_PooledBuffers ==
  ck.open =>
    /\ Len(ck.r.spans) = Len(ck.r.iov_)
    /\ \A j, k \in 1..Len(ck.r.spans) : (j # k) => (ck.r.spans[j] # ck.r.spans[k])
    /\ \A k \in 1..Len(ck.r.spans) :
         /\ ck.r.spans[k] <= Len(ck.r.free_chunks_)
         /\ ck.r.free_chunks_[ck.r.spans[k]] > 0
         /\ SliceNow(k) = ck.r.iov_[k]
    /\ Len(ck.r.free_chunks_) >= Len(ck.last.before.free_chunks_)
    /\ (ck.last.op = "Scan") =>
         /\ \A k \in 1..Len(ck.r.spans) : ck.r.spans[k] = k
         /\ Len(ck.r.free_chunks_) = Max(Len(ck.last.before.free_chunks_), ck.r.reads)

\* C27 witness: a Scan returned the first block of a file of two chunks,
\* then two SeekLastBlock calls each read the trailer chunk into a new
\* buffer
C27_Witness ==
  /\ ck.open
  /\ ck.ops = 3
  /\ ck.last.op = "SeekLastBlock"
  /\ ck.r.err_ = ""
  /\ Len(ck.r.iov_) = 1
  /\ ck.r.spans = <<1>>
  /\ ck.last.before.free_chunks_ = <<1, 2>>
  /\ ck.r.free_chunks_ = <<1, 2, 2>>

(***************************************************************************)
(* Properties of the legacy reader on stored files, stated on SpecStored.  *)
(***************************************************************************)
\* the last call was a Scan that read a block header: the reader had no
\* error, and a packed reader had yielded every item of its block
ScanAtBoundary ==
  /\ rd.open
  /\ rh.last.op = "Scan"
  /\ rh.last.before.err_ = ""
  /\ opts.packed => (rh.last.before.cur_item_ + 1 >= Len(rh.last.before.items_))

\* the bytes that were left in the file when the last call began
BytesLeft == Len(wr.out) - rh.last.before.pos

\* the size bytes of the header at which the last call began
DeclaredSize == Slice(wr.out, rh.last.before.pos + 9, rh.last.before.pos + 16)

\* that header has the reader's magic and a right checksum
HeaderIntact ==
  /\ BytesLeft >= HeaderSize
  /\ Slice(wr.out, rh.last.before.pos + 1, rh.last.before.pos + 8) = ReaderMagic
  /\ Slice(wr.out, rh.last.before.pos + 17, rh.last.before.pos + 20)
       = Crc32(DeclaredSize)

ScanRefused == ~rh.last.ret /\ rd.err_ # ""

\* C28: a Scan at a block boundary returns false without an error when the
\* source has no bytes left, and returns false with an error recorded when
\* 1 to 19 bytes are left, when the header declares a size above 2^29 and
\* when fewer payload bytes are left than the header declares; the header
\* test accepts a size of 2^29 and a size of 0, and the Scan of a block of
\* size 0 returns true.
C28_ScanAtBoundary ==
  ScanAtBoundary =>
    /\ (BytesLeft = 0) => (~rh.last.ret /\ rd.err_ = "")
    /\ (BytesLeft \in 1..(HeaderSize - 1)) => ScanRefused
    /\ (BytesLeft >= HeaderSize /\ SizeTooLarge(DeclaredSize)) => ScanRefused
    /\ (HeaderIntact /\ ~SizeTooLarge(DeclaredSize)
          /\ BytesLeft - HeaderSize < LEValue(Slice(DeclaredSize, 1, 4))) => ScanRefused
    /\ (HeaderIntact /\ DeclaredSize \in {LEUint64(MaxReadRecordSize), LEUint64(0)}) =>
         /\ ReadHeader(rh.last.before, wr.out, ReaderMagic).ok
         /\ rd.pos >= rh.last.before.pos + HeaderSize
         /\ rd.err_ # "unreasonably large read record encountered"
    /\ (HeaderIntact /\ DeclaredSize = LEUint64(0) /\ ~opts.packed
          /\ opts.transformer = "none") => rh.last.ret

\* C28 witness: after a first block was read, a Scan met a header that
\* declares 2^29 bytes with two bytes left after it, and returned false
\* with the error about the body
C28_Witness ==
  /\ ScanAtBoundary
  /\ rh.last.before.pos > 0
  /\ HeaderIntact
  /\ DeclaredSize = LEUint64(MaxReadRecordSize)
  /\ rd.err_ = "failed to read body"

\* the payload of the block at which the last call began
PayloadAtScan ==
  Slice(wr.out, rh.last.before.pos + HeaderSize + 1,
        rh.last.before.pos + HeaderSize + LEValue(Slice(DeclaredSize, 1, 4)))

\* the Scan read a packed block whose header and whose payload are whole
ScanReadList ==
  /\ ScanAtBoundary
  /\ opts.packed
  /\ HeaderIntact
  /\ ~SizeTooLarge(DeclaredSize)
  /\ BytesLeft - HeaderSize >= LEValue(Slice(DeclaredSize, 1, 4))
  /\ Len(PayloadAtScan) > 4

\* C29: a packed block may carry any item count from 1 to 2^32 - 1: the
\* packed reader accepts the header of a block of 2^32 - 1 items and the
\* item count 2^32 - 1, and refuses a block with the item count 0 with an
\* error.
C29_ItemCounts ==
  /\ (ScanAtBoundary /\ opts.packed /\ HeaderIntact /\ DeclaredSize = FullBlockSize) =>
       ReadHeader(rh.last.before, wr.out, ReaderMagic).ok
  /\ (ScanReadList /\ ReadUVarint(PayloadAtScan, 4, 0, 0).big) =>
       rd.err_ # "invalid block header (n_items)"
  /\ (ScanReadList /\ Slice(PayloadAtScan, 5, 5) = <<0>>) => ScanRefused

\* the sum of the n item sizes declared from offset pos of data on
RECURSIVE DeclaredSum(_, _, _)
DeclaredSum(data, pos, n) ==
  IF n = 0 THEN SizeT(0, 0)
  ELSE SizeAdd(VarintSize(data, pos, ReadUVarint(data, pos, 0, 0).pos - pos),
               DeclaredSum(data, ReadUVarint(data, pos, 0, 0).pos, n - 1))

\* the sum of the item sizes that the block read by the last call declares
SumAtScan ==
  DeclaredSum(PayloadAtScan, ReadUVarint(PayloadAtScan, 4, 0, 0).pos,
              ReadUVarint(PayloadAtScan, 4, 0, 0).v)

\* C30: the packed reader accepts a block only if the length of its items
\* region after the decode transform is the sum of the declared item
\* sizes; on a difference Scan returns false with the error 'junk at the
\* end of block'.
C30_RegionIsSumOfSizes ==
  /\ (ScanReadList /\ rh.last.ret) =>
       SizeT(0, Len(rd.block_) - rd.items_start_) = SumAtScan
  /\ (ScanReadList /\ rd.err_ = "junk at the end of block") => ~rh.last.ret

\* C31: after every Scan of the packed reader that returned true, the span
\* of Get() lies inside the items region of the current block: the item has
\* an offset and a size that are not negative, and it ends at or before the
\* end of the region.
C31_ItemInsideRegion ==
  (rd.open /\ opts.packed /\ rh.last.op = "Scan" /\ rh.last.ret) =>
    /\ rd.cur_item_ < Len(rd.items_)
    /\ rd.items_[rd.cur_item_ + 1].offset >= 0
    /\ rd.items_[rd.cur_item_ + 1].size >= 0
    /\ rd.items_[rd.cur_item_ + 1].offset + rd.items_[rd.cur_item_ + 1].size
         <= Len(rd.block_) - rd.items_start_

\* the last call on the long file was SeekLastBlock, by a reader without an
\* error
SoughtLast == ck.long.last.op = "SeekLastBlock" /\ ck.long.last.before.err_ = ""

\* the last call on the long file was the Scan after such a SeekLastBlock
\* that read the last chunk, of a file that ends with a trailer block
ScanAfterSoughtLast ==
  /\ ck.long.last.op = "Scan"
  /\ ck.long.last.sought
  /\ ck.long.file.trailer >= 1

\* C26: after SeekLastBlock on a file whose last block is a trailer block
\* of N >= 1 chunks, the source is N chunks before the end of the file and
\* the next Scan returns that trailer block; when the last chunk of the
\* file does not carry the trailer magic or cannot be read, an error is
\* recorded.
C26_SeekLastBlock ==
  /\ (SoughtLast /\ ck.long.file.trailer >= 1 /\ ~ck.long.last.rerr) =>
       /\ ck.long.r.err_ = ""
       /\ ck.long.r.pos = ck.long.file.data
  /\ (SoughtLast /\ (ck.long.file.trailer = 0 \/ ck.long.last.rerr)) =>
       ck.long.r.err_ # ""
  /\ ScanAfterSoughtLast =>
       /\ ck.long.last.ret
       /\ ck.long.last.block = [magic |-> MagicTrailer, chunks |-> ck.long.file.trailer]

\* the last call was a Scan, on a reader without an error at the start of
\* a well-formed block of a file of whole chunks, and one of its Reads
\* returned fewer bytes than asked for with more bytes left
ScanMetShortRead ==
  /\ ck.last.op = "Scan"
  /\ ck.last.fault < 0
  /\ ck.last.before.err_ = ""
  /\ ck.file.tail = 0
  /\ ChunkScan(ck.last.before, ck.file, 0).ok

\* C25: ChunkReader::Scan returns the same result however the source splits
\* a request of 32768 bytes: with a Read that returns fewer bytes than asked
\* for before the end of the file, Scan returns what it returns with whole
\* Reads, the same block and the same error or none.
C25_ShortReadSameResult ==
  ScanMetShortRead =>
    /\ ck.last.ret = ChunkScan(ck.last.before, ck.file, 0).ok
    /\ ck.r.iov_ = ChunkScan(ck.last.before, ck.file, 0).r.iov_
    /\ ck.r.err_ = ChunkScan(ck.last.before, ck.file, 0).r.err_

\* the last call was a Scan, on a reader without an error, whose last Read
\* found no byte left; no Read returned an error
ScanMetEof ==
  /\ ck.last.op = "Scan"
  /\ ck.last.fault = 0
  /\ ck.last.before.err_ = ""
  /\ ck.file.tail = 0
  /\ ck.r.reads = Len(ck.r.seen) + 1
  /\ ck.r.pos = ChunkFileSize(ck.file)

\* C21: when the source reaches the end of the file after Scan has consumed
\* at least one chunk of a block and before the chunk with index total - 1
\* (a first chunk that declares total_chunks = 0 included), Scan returns
\* false and an error is recorded; only the end of the file before the
\* first chunk of a block is a clean end with no error.
C21_EofInsideBlock ==
  ScanMetEof =>
    /\ ~ck.last.ret
    /\ (ck.r.seen # <<>>) => (ck.r.err_ # "")
    /\ (ck.r.seen = <<>>) => (ck.r.err_ = "")

\* the last call was a Scan, on a reader without an error, in which a Read
\* of the source returned an error
ScanMetReadError ==
  /\ ck.last.op = "Scan"
  /\ ck.last.fault > 0
  /\ ck.last.before.err_ = ""

\* C22: when the Read of the source returns a non-empty error during Scan,
\* Scan returns false and the failure is stored in the reader's sticky
\* error: the error is non-empty afterwards.
C22_ReadErrorStored == ScanMetReadError => (~ck.last.ret /\ ck.r.err_ # "")

(***************************************************************************)
(* Properties of the readers on a file with a flipped bit, stated on       *)
(* SpecFlip.                                                               *)
(***************************************************************************)
\* the last call was the legacy reader's Scan that moved the source into
\* the block with the flipped bit
ScanTouchedBlock ==
  /\ flip.done
  /\ flip.region # "chunk"
  /\ rd.open
  /\ rh.last.op = "Scan"
  /\ rh.last.before.pos <= gh.blocks[flip.block].start
  /\ rd.pos > gh.blocks[flip.block].start

\* the last call was the ChunkReader's Scan that read the chunk with the
\* flipped bit
ScanTouchedChunk ==
  /\ flip.done
  /\ flip.region = "chunk"
  /\ ck.open
  /\ ck.last.op = "Scan"
  /\ ck.last.before.pos <= (flip.block - 1) * ChunkSize
  /\ ck.r.pos > (flip.block - 1) * ChunkSize

\* the data blocks of the v2 file
DataBlocks == SelectSeq(v2.blocks, LAMBDA b : b.magic = MagicPacked)

\* the first call on the v2 reader was Scan, and it has returned
FirstV2Scan == v2.ops = 1 /\ v2.last.op = "Scan"

ItemAt(loc) ==
  (CHOOSE b \in {v2.blocks[k] : k \in 1..Len(v2.blocks)} : b.off = loc.block)
    .items[loc.item + 1]

\* the last call was a Scan that came right after a Seek
ScanAfterSeek == v2.last.op = "Scan" /\ v2.last.after # NoLoc

Unopened == rd.open /\ rd.errno # ""

\* the last call was the first call made on the reader, and it was Scan
FirstCallWasScan ==
  /\ rh.last.op = "Scan"
  /\ rh.last.before = NewReaderUnopened(rd.errno)
  /\ ~rh.last.ended_before

\* C18: a reader created for a file that cannot be opened is a usable
\* object: its first Scan returns false, and the error is then non-empty and
\* carries the message of the failed open.
C18_MissingFileScan ==
  (Unopened /\ FirstCallWasScan) =>
    /\ ~rh.last.ret
    /\ rd.err_ # ""
    /\ rd.err_ = "Failed to read file: " \o rd.errno

\* C18 witness: the first Scan of a packed reader for a missing file has
\* returned
C18_Witness ==
  /\ Unopened
  /\ FirstCallWasScan
  /\ opts.packed
  /\ rd.errno = "No such file or directory"

FlippedSizeValue == flip.region = "sizes" /\ flip.at > 24 /\ flip.bit < 7

\* the flip inverted a bit of the payload size of the chunk
FlippedPayloadSize == flip.region = "chunk" /\ flip.at \in 16..19

\* the error a flip in the item count or item sizes leaves in a reader
\* that had none
SizesFlipError ==
  /\ rd.err_ \in {"wrong crc", "invalid block header (n_items)"}
  /\ FlippedSizeValue => rd.err_ = "wrong crc"

PayloadWritten(k) ==
  LET b == gh.blocks[k]
      stored == Slice(wr.out, b.start + HeaderSize + 1, b.start + HeaderSize + b.size)
  IN  IF flip.done /\ flip.region # "chunk" /\ flip.block = k /\ flip.at >= HeaderSize
        THEN [stored EXCEPT ![flip.at - HeaderSize + 1] = FlipBit(@, flip.bit)]
      ELSE stored

\* the Scan that read the block with the flipped bit, by a reader that had
\* no error, the flip being in the bytes of the items
ScanMetChangedItems ==
  /\ ScanTouchedBlock
  /\ rh.last.before.err_ = ""
  /\ flip.region = "items"

\* C24 as stated: the checksum at the start of a packed block's payload is
\* the CRC32 of every payload byte after it, item bytes included, and the
\* packed reader rejects a block whose item bytes differ from what was
\* written.
C24_ChecksumCoversItems ==
  /\ opts.packed =>
       \A k \in 1..Len(gh.blocks) :
         Slice(PayloadWritten(k), 1, 4)
           = Crc32(Slice(PayloadWritten(k), 5, gh.blocks[k].size))
  /\ ScanMetChangedItems => ~rh.last.ret

\* C24, amended: the checksum at the start of a packed block's payload, as
\* the writer computes it and as the reader verifies it, is the CRC32 of the
\* item count and the item sizes that follow it, item bytes not included.
\* The reader rejects a block whose count or size bytes differ from what
\* was written; a block whose item bytes differ passes the checksum test,
\* and without a transformer it is accepted with the changed bytes.
C24_ChecksumCoversSizes ==
  /\ opts.packed =>
       \A k \in 1..Len(gh.blocks) :
         Slice(PayloadWritten(k), 1, 4)
           = Crc32(Slice(PayloadWritten(k), 5, 4 + VarintsLen(gh.blocks[k].items)))
  /\ (ScanTouchedBlock /\ flip.region = "sizes") => ~rh.last.ret
  /\ ScanMetChangedItems =>
       /\ rd.err_ # "wrong crc"
       /\ (opts.transformer = "none") =>
            /\ rh.last.ret
            /\ rd.err_ = ""
            /\ rd.block_ # PayloadWritten(flip.block)
            /\ Slice(rd.block_, 1, rd.items_start_)
                 = Slice(PayloadWritten(flip.block), 1, rd.items_start_)

\* C24 witness: a packed file without a transformer had a bit of an item
\* flipped in its second block, and the Scan that read that block returned
\* true
C24_Witness ==
  /\ ScanMetChangedItems
  /\ opts.transformer = "none"
  /\ flip.block = 2
  /\ Len(gh.blocks[2].items) = 2
  /\ rh.last.ret

(***************************************************************************)
(* Properties of the BinaryParser and of DecodeHeader, stated on           *)
(* SpecParser.                                                             *)
(***************************************************************************)
\* the last call read a varint
VarintRead == bp.last.op \in {"ReadUVarint", "ReadVarint"}

\* the bytes the parser had left before the last call
LeftBefore ==
  Slice(bp.last.before.data, bp.last.before.pos + 1, Len(bp.last.before.data))

\* no byte below 0x80 was left: the input ended before the varint did
EndsEarly == \A k \in 1..Len(LeftBefore) : LeftBefore[k] >= 128

\* C32: ReadUVarint and ReadVarint record an error whenever the input ends
\* before a byte below 0x80 terminates the varint, empty input included.
C32_TruncatedVarintIsError ==
  (VarintRead /\ EndsEarly) => bp.P.err # ""

\* the number of bytes of 0x80 and above before the first byte below 0x80
\* that was left
Conts ==
  CHOOSE k \in 0..(Len(LeftBefore) - 1) :
    LeftBefore[k + 1] < 128 /\ \A j \in 1..k : LeftBefore[j] >= 128

\* the sum of (b_i & 0x7f) * 2^(7i) over the bytes b_0..b_k of the encoding
\* that was left, as 64 bits
EncodedSum ==
  [b \in 1..64 |->
     IF (b - 1) \div 7 <= Conts
       THEN BitOf(LeftBefore[(b - 1) \div 7 + 1] % 128, (b - 1) % 7)
     ELSE 0]

\* the encoding is longer than 10 bytes, or has 10 bytes and a last byte
\* above 1
TooLong == Conts > 9 \/ (Conts = 9 /\ LeftBefore[10] > 1)

\* C33: ReadUVarint rejects with an error every complete encoding longer
\* than 10 bytes and every 10-byte encoding whose last byte is above 1; for
\* every other complete encoding b_0..b_k it returns the sum of
\* (b_i & 0x7f) * 2^(7i) and consumes exactly k+1 bytes; ReadVarint on the
\* uvarint of the zig-zag form (n << 1) ^ (n >> 63) of n returns n.
C33_UVarintValue ==
  /\ (bp.last.op = "ReadUVarint" /\ ~EndsEarly /\ bp.last.before.err = "") =>
       IF TooLong THEN bp.P.err # ""
       ELSE /\ bp.P.err = ""
            /\ bp.last.v = EncodedSum
            /\ bp.P.pos = bp.last.before.pos + Conts + 1
            /\ bp.P.bytes_ = bp.last.before.bytes_ - Conts - 1
  /\ (bp.last.op = "ReadVarint" /\ bp.last.before.err = "") =>
       \A n \in Int64Samples :
         LeftBefore = UVarintOf(ZigZagOf(n)) => (bp.last.v = n /\ bp.P.err = "")

\* the least int64_t was read from its ten bytes, the uvarint of 2^64 - 1
C33_Witness ==
  /\ bp.last.op = "ReadVarint"
  /\ LeftBefore = Rep(255, 9) \o <<1>>
  /\ LeftBefore = UVarintOf(ZigZagOf(Min64))
  /\ bp.P.pos = 10
  /\ bp.last.v = Min64

(***************************************************************************)
(* Properties of the UnflateTransformer, stated on SpecUnflate.            *)
(***************************************************************************)
\* the stream the encoder gave for the buffer
StreamOf == Deflate(fl.B)

\* the count of bytes in the first k slices that were fed
FedUpTo(k) == IoVecSize(SubSeq(fl.fed, 1, k))

\* the slice in which the end marker of the stream lies
EndSlice ==
  CHOOSE k \in 1..Len(fl.fed) :
    FedUpTo(k) >= Len(StreamOf) /\ \A j \in 1..(k - 1) : FedUpTo(j) < Len(StreamOf)

\* the whole stream was fed, in slices none of which is empty, and bytes of
\* the slice of the end marker or further slices come after it
FedWithJunk ==
  /\ fl.calls > 0
  /\ Len(IoVecFlatten(fl.fed)) >= Len(StreamOf)
  /\ SubSeq(IoVecFlatten(fl.fed), 1, Len(StreamOf)) = StreamOf
  /\ \A k \in 1..EndSlice : fl.fed[k] # <<>>
  /\ FedUpTo(EndSlice) > Len(StreamOf) \/ EndSlice < Len(fl.fed)

\* C34: the unflate transformer returns the 'trailing junk' error, and no
\* output, whenever input bytes remain in the current slice or further
\* slices are left after the end marker of the stream.
C34_TrailingJunk ==
  FedWithJunk =>
    (fl.dec.err = "found trailing junk during inflate" /\ fl.dec.out = <<>>)

\* C35: the unflate transformer returns success only when the stream
\* reached its end marker with all decoded output delivered; input that
\* ends before the end of the stream, or whose last byte is consumed while
\* the output buffer is full, gives an error.
C35_SuccessIsWholeStream ==
  (fl.calls > 0 /\ fl.dec.err = "") =>
    (IoVecFlatten(fl.fed) = StreamOf /\ fl.dec.out = fl.B)

\* DecodeHeader was called and left no error in the ErrorReporter
HeaderDecoded == bp.last.op = "DecodeHeader" /\ bp.P.err = "" /\ ~bp.P.thrown

\* n_entries: the uvarint that follows the type byte of the count
DeclaredEntries == BinaryParserReadUVarint(NextByte(bp.last.before), "zero").v

\* C36: when DecodeHeader succeeds it returns exactly n_entries entries,
\* for every n_entries including values of 2^31 and above.
C36_AllEntriesDecoded ==
  HeaderDecoded => Int64(Len(bp.last.v), 0) = DeclaredEntries

\* the count of bytes the last call consumed
Consumed == bp.P.pos - bp.last.before.pos

\* C37: BinaryParser never moves its cursor outside the buffer it was
\* given: every ReadBytes, ReadString, ReadLEUint32 and ReadLEUint64 either
\* consumes n bytes with 0 <= n <= remaining, or records an error and
\* consumes nothing, also when the count comes from decoded input.
C37_CursorInsideBuffer ==
  bp.last.op \in {"ReadBytes", "ReadString", "ReadLEUint32", "ReadLEUint64"} =>
    /\ bp.P.pos >= 0
    /\ bp.P.pos <= Len(bp.P.data)
    /\ bp.P.bytes_ = Len(bp.P.data) - bp.P.pos
    /\ \/ Consumed >= 0 /\ Consumed <= bp.last.before.bytes_ /\ ~bp.P.thrown
       \/ bp.P.err # "" /\ Consumed = 0

====
